---- MODULE Spec2Model ----
(***************************************************************************)
(* Model of the bean service core: utils.RingBuffer, trace.TracesRepository *)
(* (Append / Get / Serve / Stop), scorer.CompositeScorer, rule.Rule with    *)
(* scorer.RulesScorer, and the ingest handler of server.ApiV1Router.        *)
(*                                                                          *)
(* Twelve specifications share the variables:                               *)
(*   SpecRing  - one RingBuffer of any capacity 1..MaxCap under Push and    *)
(*               its readers;                                               *)
(*   Spec      - the repository with concurrent Append callers, Get, the    *)
(*               reaper goroutine (Serve), the ticker, Stop and the clock;  *)
(*   SpecScore - CompositeScorer.Score over a repository filled by          *)
(*               sequential Appends;                                        *)
(*   SpecRules - RulesScorer.Score, one (trace, rule) pair per step, for    *)
(*               every rule list, trace list and bounds of the model;       *)
(*   SpecIngest - ApiV1Router.traceHandler over the repository and the      *)
(*               dataset sink.                                              *)
(*   SpecQuery - ApiV1Router.scoreHandler over pipelines of rules scorers   *)
(*               and the remote ClientInputScorer, one request at a time;   *)
(*   SpecSink  - JsonDatasetRepository.Append, one log line per call;       *)
(*   SpecMain  - the process: main from LoadConfig to the exit, with        *)
(*               signals, for every configuration file of the model;        *)
(*   SpecAppend - Append and Get callers on a repository of any length      *)
(*               -1..L;                                                     *)
(*   SpecRingConc - Push, ToSlice and At of one RingBuffer, one statement   *)
(*               at a time, by concurrent goroutines;                       *)
(*   SpecLocks - Append, Get and the reaper, one Lock / RLock at a time,    *)
(*               under a fair scheduler;                                    *)
(*   SpecServe - the reaper, Stop and Append callers under the same fair    *)
(*               scheduler.                                                 *)
(***************************************************************************)
EXTENDS Integers, Sequences, FiniteSets, TLC

(* ------------------------------ bounds --------------------------------- *)
L == 2              \* analysis.traces_length handed to NewTracesRepository
TTL == 0            \* analysis.traces_ttl, in clock units
MaxAppends == 3     \* Append calls issued in one behaviour
MaxCap == 3         \* SpecRing: capacities 1..MaxCap
MaxPush == 4        \* SpecRing: pushes on the one ring
MaxScorers == 2     \* SpecScore: scorers in the pipeline
MaxVal == 3         \* SpecScore: scorer values range over -MaxVal..MaxVal halves
MaxRules == 2       \* SpecRules: rules held by the RulesScorer
MaxTraces == 2      \* SpecRules: traces handed to one RulesScorer.Score call
MaxIngest == 2      \* SpecIngest: requests answered 200 in one behaviour
MaxSinkAppends == 2 \* SpecSink: JsonDatasetRepository.Append calls
MaxCalls == 2       \* SpecLocks, SpecServe: Append calls in one behaviour

MaxTime == TTL + 1  \* the clock runs just far enough for an entry to outlive ttl
Tokens == {"t1", "t2"}
Items == {1, 2}           \* SpecRing: items pushed
Workers == {"w1", "w2"}   \* goroutines calling Append
Readers == {"w1"}         \* those of them that also call Get
Zero == 0           \* Go zero value of a slot never written
NoBuf == 0          \* "traces[id] not found"
NoTime == -1        \* "tracesUpdates[id] not found"
None == "none"
NoTrace == 0         \* ghost lastRet: no settled Append for the token
NoGot == <<None, <<>>, FALSE>>
NoArg == [id |-> None, t |-> Zero, at |-> 0]   \* locals of a worker outside Append

VARIABLES
    rb,             \* SpecRing: the ring buffer under test
    rbPushed,       \* SpecRing ghost: every item pushed, in push order
    rbRead,         \* SpecRing: result of the last ToSlice / At / Len call, and
                    \* (ghost) the number n of pushes that preceded it
    rbCall,         \* SpecRingConc: per goroutine, the RingBuffer call in progress
    length,         \* TracesRepository.length
    traces,         \* TracesRepository.traces: token -> buffer id or NoBuf
    tracesUpdates,  \* TracesRepository.tracesUpdates: token -> time or NoTime
    bufs,           \* heap of ring buffers; buffer id = index
    tracesMu,       \* TracesRepository.tracesMu: its write holder and read holders
    cleanTicker,    \* "nil", "running" or "stopped"
    tickC,          \* cleanTicker.C holds a tick (channel of capacity 1)
    now,            \* wall clock
    pc,             \* per worker: position inside Append or after Get
    arg,            \* per worker: id, t, at (call time) of the Append in progress
    buffer,         \* per worker: local variable buffer of Append
    rpc,            \* position of the Serve goroutine
    outdated,       \* local variable outdated of Serve
    got,            \* per worker: result <<id, traces, found>> of its Get call until it is used
    nAppends,       \* ghost: Append calls issued
    stopRet,        \* ghost: some Stop call has returned
    lastRet,        \* ghost: token -> trace of the last Append that returned, while no
                    \* later Append to the token was called and no reaper delete ran
    done,           \* ghost: token -> traces of returned Appends, in order
    overlapped,     \* ghost: tokens on which two Append calls have overlapped
    deleted,        \* ghost: a reaper delete section has been executed
    expired,        \* ghost: tokens older than ttl at the reaper's last scan
    scorers,        \* CompositeScorer.scorers: the configured list
    scoreRun,       \* locals of the CompositeScorer.Score call in progress
    scoreRet,       \* what the last CompositeScorer.Score call returned, until the
                    \* next call begins
    rs,             \* the RulesScorer: rules, min, max
    rsRun,          \* locals of the RulesScorer.Score call in progress
    rsEval,         \* the last Rule.Eval call: rule, trace, and what it returned
    rsRet,          \* what the last RulesScorer.Score call returned, until the
                    \* next call begins
    datasetRepo,    \* ApiV1Router.datasetRepo: "nil" or "json"
    dataset,        \* the dataset file: <<token, trace>> lines written, in order
    handled,        \* the last ingest request, its response, and (ghost) the
                    \* calls its handler made
    query,          \* the score request in progress or last answered, and its
                    \* response
    mlCall,         \* the HTTP exchange of the ClientInputScorer.Score call in
                    \* progress or last made
    sinkFile,       \* JsonDatasetRepository: the lines written through lumberjack
    sinkLog,        \* ghost: the JsonDatasetRepository.Append calls made, in order
    proc            \* the process: position in main, its components, exit code

ringVars == <<rb, rbPushed, rbRead, rbCall>>
repoVars == <<length, traces, tracesUpdates, bufs, tracesMu, cleanTicker, tickC,
              now, pc, arg, buffer, rpc, outdated, got>>
ghostVars == <<nAppends, stopRet, lastRet, done, overlapped, deleted, expired>>
scoreVars == <<scorers, scoreRun, scoreRet>>
rulesVars == <<rs, rsRun, rsEval, rsRet>>
httpVars == <<datasetRepo, dataset, handled>>
queryVars == <<query, mlCall>>
sinkVars == <<sinkFile, sinkLog>>
procVars == <<proc>>
vars == <<ringVars, repoVars, ghostVars, scoreVars, rulesVars, httpVars,
          queryVars, sinkVars, procVars>>

(* --------------------------- utils.RingBuffer --------------------------- *)
\* sync.RWMutex: the goroutine w holding the write lock (or None), the
\* goroutines r holding a read lock and the goroutines p that are inside
\* Lock and do not hold the mutex yet; the zero value is unlocked
NoLock == [w |-> None, r |-> {}, p |-> {}]

\* mutant of CanLock: Push does not wait for the lock (the Push of the
\* earlier RingBuffer took none)
CanLockAlways(mu) == TRUE

\* Lock returns when no goroutine holds the mutex
CanLock(mu) == mu.w = None /\ mu.r = {}

\* RLock waits for the owner of the write lock and for the callers inside Lock
CanRLock(mu) == mu.w = None /\ mu.p = {}

\* NewRingBuffer for size > 0 (size <= 0 panics, see AppendCreate)
NewRingBuffer(size) ==
    [data |-> [i \in 0..(size - 1) |-> Zero], size |-> size,
     count |-> 0, head |-> 0, tail |-> 0, mu |-> NoLock]

\* mutant of Push: the full-buffer branch forgets to advance head
PushKeepHead(r, item) ==
    LET d == [r.data EXCEPT ![r.tail] = item]
        tl == (r.tail + 1) % r.size
    IN  IF r.count < r.size
        THEN [r EXCEPT !.data = d, !.tail = tl, !.count = r.count + 1]
        ELSE [r EXCEPT !.data = d, !.tail = tl]

\* mutant of Push: count grows on every push
PushCountAlways(r, item) ==
    LET d == [r.data EXCEPT ![r.tail] = item]
        tl == (r.tail + 1) % r.size
    IN  [r EXCEPT !.data = d, !.tail = tl, !.count = r.count + 1,
                  !.head = IF r.count < r.size THEN r.head ELSE (r.head + 1) % r.size]

\* Push, executed under rb.mu.Lock for its whole body
Push(r, item) ==
    LET d == [r.data EXCEPT ![r.tail] = item]
        tl == (r.tail + 1) % r.size
    IN  IF r.count < r.size
        THEN [r EXCEPT !.data = d, !.tail = tl, !.count = r.count + 1]
        ELSE [r EXCEPT !.data = d, !.tail = tl, !.head = (r.head + 1) % r.size]

\* Len (the name Len belongs to Sequences)
RbLen(r) == r.count

\* Cap
RbCap(r) == r.size

\* At(i); "panic" stands for panic("index out of range")
At(r, i) ==
    IF i < 0 \/ i >= r.count THEN "panic" ELSE r.data[(r.head + i) % r.size]

\* mutant of ToSlice: the copy starts at slot 0 instead of head
ToSliceFromZero(r) == [i \in 1..r.count |-> r.data[(i - 1) % r.size]]

\* ToSlice: a fresh slice of length count, oldest first
ToSlice(r) == [i \in 1..r.count |-> r.data[(r.head + (i - 1)) % r.size]]

(* ------------------------------ helpers --------------------------------- *)
Min(a, b) == IF a < b THEN a ELSE b

\* the last n elements of s (all of s when it is shorter)
LastN(s, n) ==
    LET k == Min(n, Len(s)) IN [i \in 1..k |-> s[Len(s) - k + i]]

(* ------------------------------ SpecRing -------------------------------- *)
RingPush(item) ==
    /\ Len(rbPushed) < MaxPush
    /\ rb' = Push(rb, item)
    /\ rbPushed' = Append(rbPushed, item)
    /\ UNCHANGED <<rbRead, rbCall, repoVars, ghostVars, scoreVars, rulesVars, httpVars, queryVars, sinkVars, procVars>>

RingToSlice ==
    /\ rbRead' = [op |-> "ToSlice", val |-> ToSlice(rb), n |-> Len(rbPushed)]
    /\ UNCHANGED <<rb, rbPushed, rbCall, repoVars, ghostVars, scoreVars, rulesVars, httpVars, queryVars, sinkVars, procVars>>

RingAt(i) ==
    /\ rbRead' = [op |-> "At", val |-> <<i, At(rb, i)>>, n |-> Len(rbPushed)]
    /\ UNCHANGED <<rb, rbPushed, rbCall, repoVars, ghostVars, scoreVars, rulesVars, httpVars, queryVars, sinkVars, procVars>>

RingLen ==
    /\ rbRead' = [op |-> "Len", val |-> <<RbLen(rb), RbCap(rb)>>, n |-> Len(rbPushed)]
    /\ UNCHANGED <<rb, rbPushed, rbCall, repoVars, ghostVars, scoreVars, rulesVars, httpVars, queryVars, sinkVars, procVars>>

(* ---------------------------- SpecRingConc ------------------------------ *)
\* Push, ToSlice and At one statement at a time, by the goroutines in
\* Workers on the one ring rb.  The k-th Push to take the lock carries the
\* item k.  A reader notes (ghost lo) how many pushes had returned when it
\* was called; a call at pc "runlock" has its return value in result/panic
\* and only the deferred RUnlock left to run.
NoRbCall == [op |-> None, pc |-> "idle", item |-> Zero, i |-> 0, result |-> <<>>,
             panic |-> FALSE, lo |-> 0]

PushesDone ==
    Len(rbPushed) - Cardinality({g \in Workers : rbCall[g].op = "Push"})

\* Push, lines 47-60
PushStep(g) ==
    LET c == rbCall[g] IN
    /\ \/ /\ c.pc = "idle"                        \* line 48: rb.mu.Lock()
          /\ Len(rbPushed) < MaxPush
          /\ CanLock(rb.mu)
          /\ rb' = [rb EXCEPT !.mu.w = g]
          /\ rbPushed' = Append(rbPushed, Len(rbPushed) + 1)
          /\ rbCall' = [rbCall EXCEPT ![g] = [NoRbCall EXCEPT !.op = "Push", !.pc = "store",
                                                              !.item = Len(rbPushed) + 1]]
       \/ /\ c.op = "Push" /\ c.pc = "store"     \* line 51
          /\ rb' = [rb EXCEPT !.data[rb.tail] = c.item]
          /\ rbCall' = [rbCall EXCEPT ![g].pc = "tail"]
          /\ UNCHANGED rbPushed
       \/ /\ c.op = "Push" /\ c.pc = "tail"      \* line 52
          /\ rb' = [rb EXCEPT !.tail = (rb.tail + 1) % rb.size]
          /\ rbCall' = [rbCall EXCEPT ![g].pc = "count"]
          /\ UNCHANGED rbPushed
       \/ /\ c.op = "Push" /\ c.pc = "count"     \* lines 54-59
          /\ rb' = IF rb.count < rb.size THEN [rb EXCEPT !.count = rb.count + 1]
                   ELSE [rb EXCEPT !.head = (rb.head + 1) % rb.size]
          /\ rbCall' = [rbCall EXCEPT ![g].pc = "unlock"]
          /\ UNCHANGED rbPushed
       \/ /\ c.op = "Push" /\ c.pc = "unlock"    \* line 49: the deferred Unlock
          /\ rb' = [rb EXCEPT !.mu.w = None]
          /\ rbCall' = [rbCall EXCEPT ![g] = NoRbCall]
          /\ UNCHANGED rbPushed
    /\ UNCHANGED <<rbRead, repoVars, ghostVars, scoreVars, rulesVars, httpVars, queryVars,
                   sinkVars, procVars>>

\* ToSlice, lines 99-109.  result[i] with i beyond the slice made at line 103
\* is a run-time panic; the deferred RUnlock runs on the way out all the same.
ToSliceStep(g) ==
    LET c == rbCall[g] IN
    \/ /\ c.pc = "idle"                            \* the call
       /\ rbCall' = [rbCall EXCEPT ![g] = [NoRbCall EXCEPT !.op = "ToSlice", !.pc = "rlock",
                                                           !.lo = PushesDone]]
       /\ UNCHANGED <<rb, rbPushed, rbRead, repoVars, ghostVars, scoreVars, rulesVars,
                      httpVars, queryVars, sinkVars, procVars>>
    \/ /\ c.op = "ToSlice" /\ c.pc = "rlock"       \* line 100: rb.mu.RLock()
       /\ CanRLock(rb.mu)
       /\ rb' = [rb EXCEPT !.mu.r = @ \cup {g}]
       /\ rbCall' = [rbCall EXCEPT ![g].pc = "make"]
       /\ UNCHANGED <<rbPushed, rbRead, repoVars, ghostVars, scoreVars, rulesVars,
                      httpVars, queryVars, sinkVars, procVars>>
    \/ /\ c.op = "ToSlice" /\ c.pc = "make"        \* line 103
       /\ rbCall' = [rbCall EXCEPT ![g].pc = "loop", ![g].i = 0,
                                   ![g].result = [k \in 1..rb.count |-> Zero]]
       /\ UNCHANGED <<rb, rbPushed, rbRead, repoVars, ghostVars, scoreVars, rulesVars,
                      httpVars, queryVars, sinkVars, procVars>>
    \/ /\ c.op = "ToSlice" /\ c.pc = "loop"        \* lines 104-106, one iteration
       /\ rbCall' = IF c.i >= rb.count THEN [rbCall EXCEPT ![g].pc = "runlock"]
                    ELSE IF c.i >= Len(c.result)
                    THEN [rbCall EXCEPT ![g].pc = "runlock", ![g].panic = TRUE]
                    ELSE [rbCall EXCEPT ![g].i = c.i + 1,
                                        ![g].result[c.i + 1] =
                                            rb.data[(rb.head + c.i) % rb.size]]
       /\ UNCHANGED <<rb, rbPushed, rbRead, repoVars, ghostVars, scoreVars, rulesVars,
                      httpVars, queryVars, sinkVars, procVars>>
    \/ /\ c.op = "ToSlice" /\ c.pc = "runlock"     \* lines 101, 108
       /\ rb' = [rb EXCEPT !.mu.r = @ \ {g}]
       /\ rbCall' = [rbCall EXCEPT ![g] = NoRbCall]
       /\ UNCHANGED <<rbPushed, rbRead, repoVars, ghostVars, scoreVars, rulesVars,
                      httpVars, queryVars, sinkVars, procVars>>

\* At(i), lines 82-91
AtStep(g, i) ==
    LET c == rbCall[g] IN
    \/ /\ c.pc = "idle"                            \* the call
       /\ rbCall' = [rbCall EXCEPT ![g] = [NoRbCall EXCEPT !.op = "At", !.pc = "rlock",
                                                           !.i = i, !.lo = PushesDone]]
       /\ UNCHANGED <<rb, rbPushed, rbRead, repoVars, ghostVars, scoreVars, rulesVars,
                      httpVars, queryVars, sinkVars, procVars>>
    \/ /\ c.op = "At" /\ c.pc = "rlock" /\ c.i = i  \* line 83: rb.mu.RLock()
       /\ CanRLock(rb.mu)
       /\ rb' = [rb EXCEPT !.mu.r = @ \cup {g}]
       /\ rbCall' = [rbCall EXCEPT ![g].pc = "check"]
       /\ UNCHANGED <<rbPushed, rbRead, repoVars, ghostVars, scoreVars, rulesVars,
                      httpVars, queryVars, sinkVars, procVars>>
    \/ /\ c.op = "At" /\ c.pc = "check" /\ c.i = i  \* lines 86-88
       /\ rbCall' = IF i < 0 \/ i >= rb.count
                    THEN [rbCall EXCEPT ![g].pc = "runlock", ![g].panic = TRUE]
                    ELSE [rbCall EXCEPT ![g].pc = "read"]
       /\ UNCHANGED <<rb, rbPushed, rbRead, repoVars, ghostVars, scoreVars, rulesVars,
                      httpVars, queryVars, sinkVars, procVars>>
    \/ /\ c.op = "At" /\ c.pc = "read" /\ c.i = i   \* line 90
       /\ rbCall' = [rbCall EXCEPT ![g].pc = "runlock",
                                   ![g].result = rb.data[(rb.head + i) % rb.size]]
       /\ UNCHANGED <<rb, rbPushed, rbRead, repoVars, ghostVars, scoreVars, rulesVars,
                      httpVars, queryVars, sinkVars, procVars>>
    \/ /\ c.op = "At" /\ c.pc = "runlock" /\ c.i = i  \* line 84: the deferred RUnlock
       /\ rb' = [rb EXCEPT !.mu.r = @ \ {g}]
       /\ rbCall' = [rbCall EXCEPT ![g] = NoRbCall]
       /\ UNCHANGED <<rbPushed, rbRead, repoVars, ghostVars, scoreVars, rulesVars,
                      httpVars, queryVars, sinkVars, procVars>>

(* ------------------------- trace.TracesRepository ----------------------- *)
\* NewTracesRepository(length, ttl): empty maps, no ticker yet
InitRepo(len) ==
    /\ length = len
    /\ traces = [id \in Tokens |-> NoBuf]
    /\ tracesUpdates = [id \in Tokens |-> NoTime]
    /\ bufs = <<>>
    /\ tracesMu = NoLock
    /\ cleanTicker = "nil"
    /\ tickC = FALSE
    /\ now = 0
    /\ pc = [w \in Workers |-> "idle"]
    /\ arg = [w \in Workers |-> NoArg]
    /\ buffer = [w \in Workers |-> NoBuf]
    /\ rpc = "init"
    /\ outdated = {}
    /\ got = [w \in Workers |-> NoGot]

InitGhost ==
    /\ nAppends = 0
    /\ stopRet = FALSE
    /\ lastRet = [id \in Tokens |-> NoTrace]
    /\ done = [id \in Tokens |-> <<>>]
    /\ overlapped = {}
    /\ deleted = FALSE
    /\ expired = {}

InitRingIdle ==
    /\ rb = NewRingBuffer(1)
    /\ rbPushed = <<>>
    /\ rbRead = [op |-> None, val |-> <<>>, n |-> 0]
    /\ rbCall = [g \in Workers |-> NoRbCall]

\* mutant of Lookup: ids collide, an absent id resolves to some live entry
LookupCollide(id) ==
    LET live == {u \in Tokens : traces[u] # NoBuf}
    IN  IF traces[id] # NoBuf THEN traces[id]
        ELSE IF live # {} THEN traces[CHOOSE u \in live : TRUE] ELSE NoBuf

\* buffer, found := tr.traces[id]  (found is buffer # NoBuf)
Lookup(id) == traces[id]

\* tokens that have an Append call in progress
InAppend == {arg[w].id : w \in {v \in Workers : pc[v] \in {"create", "push"}}}

\* Append, lines 32-34: the call, and the lookup under tracesMu.RLock.
\* The trace of the k-th call is the number k: the repository never looks
\* inside a trace, and distinct payloads keep every call recognisable.
AppendLookup(w, id) ==
    /\ pc[w] = "idle"
    /\ nAppends < MaxAppends
    /\ tracesMu = NoLock
    /\ arg' = [arg EXCEPT ![w] = [id |-> id, t |-> nAppends + 1, at |-> now]]
    /\ buffer' = [buffer EXCEPT ![w] = Lookup(id)]
    /\ pc' = [pc EXCEPT ![w] = IF Lookup(id) # NoBuf THEN "push" ELSE "create"]
    /\ nAppends' = nAppends + 1
    /\ overlapped' = IF id \in InAppend THEN overlapped \cup {id} ELSE overlapped
    /\ lastRet' = [lastRet EXCEPT ![id] = NoTrace]
    /\ UNCHANGED <<ringVars, scoreVars, rulesVars, httpVars, queryVars, sinkVars, procVars,
                   length, traces, tracesUpdates, bufs, tracesMu,
                   cleanTicker, tickC, now, rpc, outdated, got,
                   stopRet, done, deleted, expired>>

\* mutant of AppendCreate: the second lookup under the write lock is missing,
\* the caller that saw no entry always installs a new ring
AppendCreateUnchecked(w) ==
    /\ pc[w] = "create"
    /\ tracesMu = NoLock
    /\ LET id == arg[w].id IN
       IF length <= 0
       THEN /\ tracesMu' = [NoLock EXCEPT !.w = w]
            /\ pc' = [pc EXCEPT ![w] = "panicked"]
            /\ UNCHANGED <<traces, tracesUpdates, bufs, buffer>>
       ELSE /\ bufs' = Append(bufs, NewRingBuffer(length))
            /\ traces' = [traces EXCEPT ![id] = Len(bufs) + 1]
            /\ tracesUpdates' = [tracesUpdates EXCEPT ![id] = now]
            /\ buffer' = [buffer EXCEPT ![w] = Len(bufs) + 1]
            /\ pc' = [pc EXCEPT ![w] = "push"]
            /\ UNCHANGED tracesMu
    /\ UNCHANGED <<ringVars, scoreVars, rulesVars, httpVars, queryVars, sinkVars, procVars,
                   length, cleanTicker, tickC, now, arg, rpc,
                   outdated, got, ghostVars>>

\* Append, lines 36-46: the double-checked insertion under tracesMu.Lock.
\* NewRingBuffer panics for length <= 0 while the lock is held (no defer).
AppendCreate(w) ==
    /\ pc[w] = "create"
    /\ tracesMu = NoLock
    /\ LET id == arg[w].id IN
       IF Lookup(id) # NoBuf
       THEN /\ buffer' = [buffer EXCEPT ![w] = Lookup(id)]
            /\ pc' = [pc EXCEPT ![w] = "push"]
            /\ UNCHANGED <<traces, tracesUpdates, bufs, tracesMu>>
       ELSE IF length <= 0
       THEN /\ tracesMu' = [NoLock EXCEPT !.w = w]
            /\ pc' = [pc EXCEPT ![w] = "panicked"]
            /\ UNCHANGED <<traces, tracesUpdates, bufs, buffer>>
       ELSE /\ bufs' = Append(bufs, NewRingBuffer(length))
            /\ traces' = [traces EXCEPT ![id] = Len(bufs) + 1]
            /\ tracesUpdates' = [tracesUpdates EXCEPT ![id] = now]
            /\ buffer' = [buffer EXCEPT ![w] = Len(bufs) + 1]
            /\ pc' = [pc EXCEPT ![w] = "push"]
            /\ UNCHANGED tracesMu
    /\ UNCHANGED <<ringVars, scoreVars, rulesVars, httpVars, queryVars, sinkVars, procVars,
                   length, cleanTicker, tickC, now, arg, rpc,
                   outdated, got, ghostVars>>

\* Append, line 48: buffer.Push(t), then return
AppendPush(w) ==
    /\ pc[w] = "push"
    /\ bufs' = [bufs EXCEPT ![buffer[w]] = Push(@, arg[w].t)]
    /\ pc' = [pc EXCEPT ![w] = "idle"]
    /\ arg' = [arg EXCEPT ![w] = NoArg]
    /\ buffer' = [buffer EXCEPT ![w] = NoBuf]
    /\ lastRet' = [lastRet EXCEPT ![arg[w].id] = arg[w].t]
    /\ done' = [done EXCEPT ![arg[w].id] = Append(@, arg[w].t)]
    /\ UNCHANGED <<ringVars, scoreVars, rulesVars, httpVars, queryVars, sinkVars, procVars,
                   length, traces, tracesUpdates, tracesMu,
                   cleanTicker, tickC, now, rpc, outdated,
                   got, nAppends, stopRet, overlapped, deleted, expired>>

\* mutant of GetResult: the slices of all live tokens are handed out together
GetResultAll(id) ==
    IF Lookup(id) = NoBuf THEN <<id, <<>>, FALSE>>
    ELSE LET others == {u \in Tokens : u # id /\ Lookup(u) # NoBuf}
         IN  IF others = {} THEN <<id, ToSlice(bufs[Lookup(id)]), TRUE>>
             ELSE <<id, ToSlice(bufs[Lookup(CHOOSE u \in others : TRUE)])
                            \o ToSlice(bufs[Lookup(id)]), TRUE>>

\* Get(id) on the current maps: <<traces, found>>
GetResult(id) ==
    IF Lookup(id) = NoBuf THEN <<id, <<>>, FALSE>>
    ELSE <<id, ToSlice(bufs[Lookup(id)]), TRUE>>

\* Get, under tracesMu.Lock for its whole body; ToSlice takes the ring's
\* read lock, which no step holds across states
Get(w, id) ==
    /\ pc[w] = "idle"
    /\ tracesMu = NoLock
    /\ got' = [got EXCEPT ![w] = GetResult(id)]
    /\ pc' = [pc EXCEPT ![w] = "got"]
    /\ UNCHANGED <<ringVars, scoreVars, rulesVars, httpVars, queryVars, sinkVars, procVars,
                   length, traces, tracesUpdates, bufs, tracesMu,
                   cleanTicker, tickC, now, arg, buffer, rpc, outdated,
                   ghostVars>>

\* the caller of Get is done with the returned slice
GetDone(w) ==
    /\ pc[w] = "got"
    /\ got' = [got EXCEPT ![w] = NoGot]
    /\ pc' = [pc EXCEPT ![w] = "idle"]
    /\ UNCHANGED <<ringVars, scoreVars, rulesVars, httpVars, queryVars, sinkVars, procVars,
                   length, traces, tracesUpdates, bufs, tracesMu,
                   cleanTicker, tickC, now, arg, buffer, rpc, outdated,
                   ghostVars>>

\* Serve, line 74: the ticker is created and stored without synchronisation
ServeStart ==
    /\ rpc = "init"
    /\ cleanTicker' = "running"
    /\ rpc' = "wait"
    /\ UNCHANGED <<ringVars, scoreVars, rulesVars, httpVars, queryVars, sinkVars, procVars,
                   length, traces, tracesUpdates, bufs, tracesMu,
                   tickC, now, pc, arg, buffer, outdated, got, ghostVars>>

\* the runtime timer sends a tick; a tick is dropped when the channel is
\* full.  The period (time.Minute) is not tied to the model clock: a tick
\* may come at any moment while the ticker runs.
TickerFire ==
    /\ cleanTicker = "running"
    /\ ~tickC
    /\ tickC' = TRUE
    /\ UNCHANGED <<ringVars, scoreVars, rulesVars, httpVars, queryVars, sinkVars, procVars,
                   length, traces, tracesUpdates, bufs, tracesMu,
                   cleanTicker, now, pc, arg, buffer, rpc, outdated,
                   got, ghostVars>>

\* mutant of Outdated: the age test is >= instead of >
OutdatedAtTtl(at) ==
    {id \in Tokens : tracesUpdates[id] # NoTime /\ at - tracesUpdates[id] >= TTL}

\* mutant of Outdated: an entry is collected one clock unit late
OutdatedLate(at) ==
    {id \in Tokens : tracesUpdates[id] # NoTime /\ at - tracesUpdates[id] > TTL + 1}

\* Serve, lines 81-85: ids whose age exceeds ttl
Outdated(at) ==
    {id \in Tokens : tracesUpdates[id] # NoTime /\ at - tracesUpdates[id] > TTL}

\* Serve, lines 75-86: receive a tick, scan under tracesMu.RLock
ReaperScan ==
    /\ rpc = "wait"
    /\ tickC
    /\ tracesMu = NoLock
    /\ tickC' = FALSE
    /\ outdated' = Outdated(now)
    /\ rpc' = IF Outdated(now) = {} THEN "wait" ELSE "delete"
    /\ expired' = {id \in Tokens : traces[id] # NoBuf /\ now - tracesUpdates[id] > TTL}
    /\ UNCHANGED <<ringVars, scoreVars, rulesVars, httpVars, queryVars, sinkVars, procVars,
                   length, traces, tracesUpdates, bufs, tracesMu,
                   cleanTicker, now, pc, arg, buffer, got,
                   nAppends, stopRet, lastRet, done, overlapped, deleted>>

\* mutant of ReaperDelete: the ids are removed from traces only
ReaperDeleteTracesOnly ==
    /\ rpc = "delete"
    /\ tracesMu = NoLock
    /\ traces' = [id \in Tokens |-> IF id \in outdated THEN NoBuf ELSE traces[id]]
    /\ outdated' = {}
    /\ rpc' = "wait"
    /\ deleted' = TRUE
    /\ lastRet' = [id \in Tokens |-> NoTrace]
    /\ UNCHANGED <<ringVars, scoreVars, rulesVars, httpVars, queryVars, sinkVars, procVars,
                   length, tracesUpdates, bufs, tracesMu, cleanTicker, tickC, now,
                   pc, arg, buffer, got,
                   nAppends, stopRet, done, overlapped, expired>>

\* Serve, lines 89-96: delete the collected ids under tracesMu.Lock
ReaperDelete ==
    /\ rpc = "delete"
    /\ tracesMu = NoLock
    /\ traces' = [id \in Tokens |-> IF id \in outdated THEN NoBuf ELSE traces[id]]
    /\ tracesUpdates' = [id \in Tokens |->
                            IF id \in outdated THEN NoTime ELSE tracesUpdates[id]]
    /\ outdated' = {}
    /\ rpc' = "wait"
    /\ deleted' = TRUE
    /\ lastRet' = [id \in Tokens |-> NoTrace]
    /\ UNCHANGED <<ringVars, scoreVars, rulesVars, httpVars, queryVars, sinkVars, procVars,
                   length, bufs, tracesMu, cleanTicker, tickC, now,
                   pc, arg, buffer, got,
                   nAppends, stopRet, done, overlapped, expired>>

\* Stop, lines 103-107.  tr.cleanTicker is read without synchronisation with
\* the write in Serve: once Serve has stored the ticker the read yields the
\* ticker or the stale nil.  A further Stop call that would change nothing
\* (ticker still nil, or already stopped) is a stuttering step.
Stop ==
    /\ ~stopRet \/ cleanTicker = "running"
    /\ \E seen \in (IF cleanTicker = "nil" THEN {"nil"} ELSE {"nil", "ticker"}) :
          cleanTicker' = IF seen = "ticker" THEN "stopped" ELSE cleanTicker
    /\ stopRet' = TRUE
    /\ UNCHANGED <<ringVars, scoreVars, rulesVars, httpVars, queryVars, sinkVars, procVars,
                   length, traces, tracesUpdates, bufs, tracesMu,
                   tickC, now, pc, arg, buffer, rpc, outdated, got,
                   nAppends, lastRet, done, overlapped, deleted, expired>>

\* time passes
Tick ==
    /\ now < MaxTime
    /\ now' = now + 1
    /\ UNCHANGED <<ringVars, scoreVars, rulesVars, httpVars, queryVars, sinkVars, procVars,
                   length, traces, tracesUpdates, bufs, tracesMu,
                   cleanTicker, tickC, pc, arg, buffer, rpc, outdated,
                   got, ghostVars>>

(* ------------------ the repository, lock by lock ------------------------ *)
\* Append, Get and Serve with every Lock / RLock call a step of its own,
\* on tracesMu and on the mu of each ring in bufs.  A goroutine inside
\* Lock is in the p of the mutex from the call until it owns the mutex.

\* mutant of Unlock: the write lock is kept
UnlockKeeps(mu) == mu

\* mu.Unlock()
Unlock(mu) == [mu EXCEPT !.w = None]

\* the callers work on one session, which puts them on one ring
Busy == {"t1"}

\* a caller enters Append(id, t); t is the number of the call
AppendBegin(w, id) ==
    /\ pc[w] = "idle"
    /\ nAppends < MaxCalls
    /\ arg' = [arg EXCEPT ![w] = [NoArg EXCEPT !.id = id, !.t = nAppends + 1]]
    /\ pc' = [pc EXCEPT ![w] = "a_rlock"]
    /\ nAppends' = nAppends + 1
    /\ UNCHANGED <<ringVars, scoreVars, rulesVars, httpVars, queryVars, sinkVars, procVars,
                   length, traces, tracesUpdates, bufs, tracesMu,
                   cleanTicker, tickC, now, buffer, rpc, outdated, got,
                   stopRet, lastRet, done, overlapped, deleted, expired>>

\* Append, lines 32-48, and the Push it ends with (ring_buffer.go 47-60).
\* A step runs from one blocking call to the next: what a goroutine does
\* between the return of one Lock / RLock and its next call of one,
\* that call's entry included, is one step.
AppendFine(w) ==
    LET id == arg[w].id
        b == buffer[w]
    IN
    /\ \/ /\ pc[w] = "a_rlock"                    \* line 32
          /\ CanRLock(tracesMu)
          /\ tracesMu' = [tracesMu EXCEPT !.r = @ \cup {w}]
          /\ pc' = [pc EXCEPT ![w] = "a_lookup"]
          /\ UNCHANGED <<traces, tracesUpdates, bufs, arg, buffer>>
       \/ /\ pc[w] = "a_lookup"                   \* lines 33-37 or 33-36, 48
          /\ buffer' = [buffer EXCEPT ![w] = Lookup(id)]
          /\ IF Lookup(id) # NoBuf
             THEN /\ tracesMu' = [tracesMu EXCEPT !.r = @ \ {w}]
                  /\ bufs' = [bufs EXCEPT ![Lookup(id)].mu.p = @ \cup {w}]
                  /\ pc' = [pc EXCEPT ![w] = "p_acq"]
             ELSE /\ tracesMu' = [tracesMu EXCEPT !.r = @ \ {w}, !.p = @ \cup {w}]
                  /\ pc' = [pc EXCEPT ![w] = "a_acq"]
                  /\ UNCHANGED bufs
          /\ UNCHANGED <<traces, tracesUpdates, arg>>
       \/ /\ pc[w] = "a_acq"                      \* line 37: Lock returns
          /\ CanLock(tracesMu)
          /\ tracesMu' = [tracesMu EXCEPT !.w = w, !.p = @ \ {w}]
          /\ pc' = [pc EXCEPT ![w] = "a_create"]
          /\ UNCHANGED <<traces, tracesUpdates, bufs, arg, buffer>>
       \/ /\ pc[w] = "a_create"                   \* lines 39-48
          /\ IF Lookup(id) # NoBuf
             THEN /\ buffer' = [buffer EXCEPT ![w] = Lookup(id)]
                  /\ tracesMu' = Unlock(tracesMu)
                  /\ bufs' = [bufs EXCEPT ![Lookup(id)].mu.p = @ \cup {w}]
                  /\ pc' = [pc EXCEPT ![w] = "p_acq"]
                  /\ UNCHANGED <<traces, tracesUpdates>>
             ELSE IF length <= 0
             THEN /\ pc' = [pc EXCEPT ![w] = "panicked"]
                  /\ UNCHANGED <<traces, tracesUpdates, bufs, buffer, tracesMu>>
             ELSE /\ bufs' = Append(bufs, [NewRingBuffer(length) EXCEPT !.mu.p = {w}])
                  /\ traces' = [traces EXCEPT ![id] = Len(bufs) + 1]
                  /\ tracesUpdates' = [tracesUpdates EXCEPT ![id] = now]
                  /\ buffer' = [buffer EXCEPT ![w] = Len(bufs) + 1]
                  /\ tracesMu' = Unlock(tracesMu)
                  /\ pc' = [pc EXCEPT ![w] = "p_acq"]
          /\ UNCHANGED arg
       \/ /\ pc[w] = "p_acq"                      \* Push line 48: Lock returns
          /\ CanLock(bufs[b].mu)
          /\ bufs' = [bufs EXCEPT ![b].mu.w = w, ![b].mu.p = @ \ {w}]
          /\ pc' = [pc EXCEPT ![w] = "p_body"]
          /\ UNCHANGED <<traces, tracesUpdates, tracesMu, arg, buffer>>
       \/ /\ pc[w] = "p_body"                     \* Push lines 49-60, and the return
          /\ bufs' = [bufs EXCEPT ![b] = [Push(@, arg[w].t) EXCEPT !.mu = Unlock(@)]]
          /\ pc' = [pc EXCEPT ![w] = "idle"]
          /\ arg' = [arg EXCEPT ![w] = NoArg]
          /\ buffer' = [buffer EXCEPT ![w] = NoBuf]
          /\ UNCHANGED <<traces, tracesUpdates, tracesMu>>
    /\ UNCHANGED <<ringVars, scoreVars, rulesVars, httpVars, queryVars, sinkVars, procVars,
                   length, cleanTicker, tickC, now, rpc, outdated, got, ghostVars>>

\* a caller enters Get(id), line 55: Lock is called
GetBegin(w, id) ==
    /\ pc[w] = "idle"
    /\ arg' = [arg EXCEPT ![w] = [NoArg EXCEPT !.id = id]]
    /\ tracesMu' = [tracesMu EXCEPT !.p = @ \cup {w}]
    /\ pc' = [pc EXCEPT ![w] = "g_acq"]
    /\ UNCHANGED <<ringVars, scoreVars, rulesVars, httpVars, queryVars, sinkVars, procVars,
                   length, traces, tracesUpdates, bufs,
                   cleanTicker, tickC, now, buffer, rpc, outdated, got, ghostVars>>

\* Get, lines 55-63, and the ToSlice it ends with (ring_buffer.go 99-109).
\* The slice goes to the caller; the repository keeps nothing of it.
GetFine(w) ==
    LET id == arg[w].id
        b == buffer[w]
    IN
    /\ \/ /\ pc[w] = "g_acq"                      \* line 55: Lock returns
          /\ CanLock(tracesMu)
          /\ tracesMu' = [tracesMu EXCEPT !.w = w, !.p = @ \ {w}]
          /\ pc' = [pc EXCEPT ![w] = "g_find"]
          /\ UNCHANGED <<bufs, arg, buffer>>
       \/ /\ pc[w] = "g_find"                     \* lines 58-61
          /\ IF Lookup(id) = NoBuf
             THEN /\ tracesMu' = Unlock(tracesMu)
                  /\ pc' = [pc EXCEPT ![w] = "idle"]
                  /\ arg' = [arg EXCEPT ![w] = NoArg]
                  /\ UNCHANGED buffer
             ELSE /\ buffer' = [buffer EXCEPT ![w] = Lookup(id)]
                  /\ pc' = [pc EXCEPT ![w] = "g_rlock"]
                  /\ UNCHANGED <<tracesMu, arg>>
          /\ UNCHANGED bufs
       \/ /\ pc[w] = "g_rlock"                    \* line 63, ToSlice line 100
          /\ CanRLock(bufs[b].mu)
          /\ bufs' = [bufs EXCEPT ![b].mu.r = @ \cup {w}]
          /\ pc' = [pc EXCEPT ![w] = "g_copy"]
          /\ UNCHANGED <<tracesMu, arg, buffer>>
       \/ /\ pc[w] = "g_copy"                     \* ToSlice lines 101-108, line 56
          /\ bufs' = [bufs EXCEPT ![b].mu.r = @ \ {w}]
          /\ tracesMu' = Unlock(tracesMu)
          /\ pc' = [pc EXCEPT ![w] = "idle"]
          /\ arg' = [arg EXCEPT ![w] = NoArg]
          /\ buffer' = [buffer EXCEPT ![w] = NoBuf]
    /\ UNCHANGED <<ringVars, scoreVars, rulesVars, httpVars, queryVars, sinkVars, procVars,
                   length, traces, tracesUpdates, cleanTicker, tickC, now, rpc, outdated,
                   got, ghostVars>>

\* Serve, lines 75-97: one pass of the loop, from the tick to the next wait
ServeFine ==
    /\ \/ /\ rpc = "wait"                         \* line 75: a tick is received
          /\ tickC
          /\ tickC' = FALSE
          /\ rpc' = "r_rlock"
          /\ UNCHANGED <<traces, tracesUpdates, tracesMu, outdated>>
       \/ /\ rpc = "r_rlock"                      \* line 79
          /\ CanRLock(tracesMu)
          /\ tracesMu' = [tracesMu EXCEPT !.r = @ \cup {"reaper"}]
          /\ rpc' = "r_scan"
          /\ UNCHANGED <<traces, tracesUpdates, tickC, outdated>>
       \/ /\ rpc = "r_scan"                       \* lines 80-90
          /\ outdated' = Outdated(now)
          /\ IF Outdated(now) = {}
             THEN /\ tracesMu' = [tracesMu EXCEPT !.r = @ \ {"reaper"}]
                  /\ rpc' = "wait"
             ELSE /\ tracesMu' = [tracesMu EXCEPT !.r = @ \ {"reaper"},
                                                  !.p = @ \cup {"reaper"}]
                  /\ rpc' = "r_acq"
          /\ UNCHANGED <<traces, tracesUpdates, tickC>>
       \/ /\ rpc = "r_acq"                        \* line 90: Lock returns
          /\ CanLock(tracesMu)
          /\ tracesMu' = [tracesMu EXCEPT !.w = "reaper", !.p = @ \ {"reaper"}]
          /\ rpc' = "r_delete"
          /\ UNCHANGED <<traces, tracesUpdates, tickC, outdated>>
       \/ /\ rpc = "r_delete"                     \* lines 91-95
          /\ traces' = [id \in Tokens |-> IF id \in outdated THEN NoBuf ELSE traces[id]]
          /\ tracesUpdates' = [id \in Tokens |->
                                  IF id \in outdated THEN NoTime ELSE tracesUpdates[id]]
          /\ outdated' = {}
          /\ tracesMu' = Unlock(tracesMu)
          /\ rpc' = "wait"
          /\ UNCHANGED tickC
    /\ UNCHANGED <<ringVars, scoreVars, rulesVars, httpVars, queryVars, sinkVars, procVars,
                   length, bufs, cleanTicker, now, pc, arg, buffer, got, ghostVars>>

(* -------------------------- scorer.CompositeScorer ---------------------- *)
\* score.Score is map[string]float32.  Values are counted in halves (One is
\* 1.0), which float32 adds exactly; NaN is the float32 not-a-number.
One == 2
NaN == 99
Dims == {"a", "b"}
Vals == (-MaxVal..MaxVal) \cup {NaN}
Scores == UNION {[S -> Vals] : S \in SUBSET Dims}
EmptyScore == [d \in {} |-> 0]
NoErr == [kind |-> None, msg |-> <<>>]

\* float32 +, > and <: NaN propagates through + and compares false
FAdd(x, y) == IF x = NaN \/ y = NaN THEN NaN ELSE x + y
FGt(x, y) == x # NaN /\ y # NaN /\ x > y
FLt(x, y) == x # NaN /\ y # NaN /\ x < y

\* what a TracesScorer may return: a Score, or an error.  The errors of
\* ClientInputScorer are built by fmt.Errorf, net/http and encoding/json.
ScorerErrors ==
    {[kind |-> k, msg |-> <<"scorer">>] :
        k \in {"errorString", "url.Error", "json.SyntaxError"}}
ScorerOutcomes ==
    {[score |-> sc, err |-> NoErr] : sc \in Scores}
        \cup {[score |-> EmptyScore, err |-> e] : e \in ScorerErrors}

\* mutant of Clamp01: no lower bound
ClampUpperOnly(x) == IF FGt(x, One) THEN One ELSE x

\* composite_scorer.go lines 53-57
Clamp01(x) == IF FGt(x, One) THEN One ELSE IF FLt(x, 0) THEN 0 ELSE x

\* composite_scorer.go lines 51-58: result[k] += v, then clamp, for every
\* key of one scorer's score; a key missing from result reads as 0.0
Merge(result, sc) ==
    [d \in (DOMAIN result) \cup (DOMAIN sc) |->
        IF d \in DOMAIN sc
        THEN Clamp01(FAdd(IF d \in DOMAIN result THEN result[d] ELSE 0, sc[d]))
        ELSE result[d]]

\* calculator.go lines 23-25: the error built by score.NewScoreNotFoundError
NotFoundTyped(id) == [kind |-> "ScoreNotFoundError", msg |-> <<"score not found: ", id>>]

\* composite_scorer.go line 44: errors.New("trace id not found: " + id)
NotFoundError(id) == [kind |-> "errorString", msg |-> <<"trace id not found: ", id>>]

\* plain float32 sum by key, with no clamp
PlainSum(sum, sc) ==
    [d \in (DOMAIN sum) \cup (DOMAIN sc) |->
        IF d \in DOMAIN sc
        THEN FAdd(IF d \in DOMAIN sum THEN sum[d] ELSE 0, sc[d])
        ELSE sum[d]]

\* clamp(x, 0.0, 1.0) on finite values
ClampUnit(x) == IF x > One THEN One ELSE IF x < 0 THEN 0 ELSE x

\* the fold of section 4.6 (ghost, kept beside result): per dimension the
\* accumulator starts at 0.0 and becomes clamp(accumulator + value, 0.0, 1.0);
\* NaN marks a dimension on which that arithmetic is not defined
FoldStep(want, sc) ==
    [d \in (DOMAIN want) \cup (DOMAIN sc) |->
        IF d \notin DOMAIN sc THEN want[d]
        ELSE LET acc == IF d \in DOMAIN want THEN want[d] ELSE 0
             IN  IF acc = NaN \/ sc[d] = NaN THEN NaN ELSE ClampUnit(acc + sc[d])]

\* which way the clamp has cut a dimension so far (ghost): "up" when only
\* additions above 1.0 were cut, so that the plain sum exceeds the result,
\* "down" when only additions below 0.0 were, "both", or "none"
CutStep(cut, result, sc) ==
    [d \in (DOMAIN cut) \cup (DOMAIN sc) |->
        IF d \notin DOMAIN sc THEN cut[d]
        ELSE LET old == IF d \in DOMAIN cut THEN cut[d] ELSE "none"
                 raw == FAdd(IF d \in DOMAIN result THEN result[d] ELSE 0, sc[d])
             IN  IF raw = NaN THEN "nan"
                 ELSE IF raw > One THEN (IF old \in {"none", "up"} THEN "up" ELSE "both")
                 ELSE IF raw < 0 THEN (IF old \in {"none", "down"} THEN "down" ELSE "both")
                 ELSE old]

\* Ghost fields of a call: calls, the indexes of the scorers invoked so far in
\* invocation order; failed, the error a scorer has returned; cut, the
\* CutStep record of the clamps applied; want, the FoldStep fold of the scores.
NoScoreRun ==
    [pc |-> "idle", id |-> None, traces |-> <<>>, k |-> 0, result |-> EmptyScore,
     calls |-> <<>>, failed |-> NoErr, cut |-> EmptyScore, want |-> EmptyScore]
NoScoreRet ==
    [id |-> None, found |-> FALSE, result |-> EmptyScore, err |-> NoErr, invoked |-> 0,
     calls |-> <<>>, failed |-> NoErr, cut |-> EmptyScore, want |-> EmptyScore]

\* mutant of ScoreGet: the traces handed to the scorers are taken out of the
\* repository
ScoreGetDrains(id) ==
    /\ scoreRun.pc = "idle"
    /\ tracesMu = NoLock
    /\ IF ~GetResult(id)[3]
       THEN /\ scoreRet' = [id |-> id, found |-> FALSE, result |-> EmptyScore,
                            err |-> NotFoundError(id), invoked |-> 0,
                            calls |-> <<>>, failed |-> NoErr,
                            cut |-> EmptyScore, want |-> EmptyScore]
            /\ UNCHANGED <<scoreRun, traces, tracesUpdates>>
       ELSE /\ scoreRun' = [pc |-> "loop", id |-> id, traces |-> GetResult(id)[2],
                            k |-> 1, result |-> EmptyScore,
                            calls |-> <<>>, failed |-> NoErr,
                            cut |-> EmptyScore, want |-> EmptyScore]
            /\ scoreRet' = NoScoreRet
            /\ traces' = [traces EXCEPT ![id] = NoBuf]
            /\ tracesUpdates' = [tracesUpdates EXCEPT ![id] = NoTime]
    /\ UNCHANGED <<ringVars, ghostVars, scorers, rulesVars, httpVars, queryVars, sinkVars,
                   procVars, length, bufs, tracesMu, cleanTicker, tickC, now, pc, arg,
                   buffer, rpc, outdated, got>>

\* CompositeScorer.Score(id), lines 41-45: Get the traces; return the
\* not-found error when the token has no entry
ScoreGet(id) ==
    /\ scoreRun.pc = "idle"
    /\ tracesMu = NoLock
    /\ IF ~GetResult(id)[3]
       THEN /\ scoreRet' = [id |-> id, found |-> FALSE, result |-> EmptyScore,
                            err |-> NotFoundError(id), invoked |-> 0,
                            calls |-> <<>>, failed |-> NoErr,
                            cut |-> EmptyScore, want |-> EmptyScore]
            /\ UNCHANGED scoreRun
       ELSE /\ scoreRun' = [pc |-> "loop", id |-> id, traces |-> GetResult(id)[2],
                            k |-> 1, result |-> EmptyScore,
                            calls |-> <<>>, failed |-> NoErr,
                            cut |-> EmptyScore, want |-> EmptyScore]
            /\ scoreRet' = NoScoreRet
    /\ UNCHANGED <<ringVars, repoVars, ghostVars, scorers, rulesVars, httpVars, queryVars, sinkVars, procVars>>

\* mutant of ScorerReturns: a scorer's error is dropped and the loop goes on
ScorerReturnsSwallow(out) ==
    /\ scoreRun.pc = "loop"
    /\ scoreRun.k <= Len(scorers)
    /\ scoreRun' = [scoreRun EXCEPT !.k = @ + 1,
                                    !.result = Merge(@, out.score),
                                    !.calls = Append(@, scoreRun.k),
                                    !.failed = out.err,
                                    !.cut = CutStep(@, scoreRun.result, out.score),
                                    !.want = FoldStep(@, out.score)]
    /\ UNCHANGED scoreRet
    /\ UNCHANGED <<ringVars, repoVars, ghostVars, scorers, rulesVars, httpVars, queryVars, sinkVars, procVars>>

\* lines 46-58, one iteration: scorer k is invoked and returns out; an
\* error ends the call, a score is merged into result
ScorerReturns(out) ==
    /\ scoreRun.pc = "loop"
    /\ scoreRun.k <= Len(scorers)
    /\ IF out.err # NoErr
       THEN /\ scoreRet' = [id |-> scoreRun.id, found |-> TRUE,
                            result |-> scoreRun.result, err |-> out.err,
                            invoked |-> scoreRun.k,
                            calls |-> Append(scoreRun.calls, scoreRun.k),
                            failed |-> out.err,
                            cut |-> scoreRun.cut, want |-> scoreRun.want]
            /\ scoreRun' = NoScoreRun
       ELSE /\ scoreRun' = [scoreRun EXCEPT !.k = @ + 1,
                                            !.result = Merge(@, out.score),
                                            !.calls = Append(@, scoreRun.k),
                                            !.cut = CutStep(@, scoreRun.result, out.score),
                                            !.want = FoldStep(@, out.score)]
            /\ UNCHANGED scoreRet
    /\ UNCHANGED <<ringVars, repoVars, ghostVars, scorers, rulesVars, httpVars, queryVars, sinkVars, procVars>>

\* line 60: every scorer has run, return result, nil
ScoreReturn ==
    /\ scoreRun.pc = "loop"
    /\ scoreRun.k > Len(scorers)
    /\ scoreRet' = [id |-> scoreRun.id, found |-> TRUE, result |-> scoreRun.result,
                    err |-> NoErr, invoked |-> scoreRun.k - 1,
                    calls |-> scoreRun.calls, failed |-> NoErr,
                    cut |-> scoreRun.cut, want |-> scoreRun.want]
    /\ scoreRun' = NoScoreRun
    /\ UNCHANGED <<ringVars, repoVars, ghostVars, scorers, rulesVars, httpVars, queryVars, sinkVars, procVars>>

\* one Append call run from call to return with nothing interleaved
AppendCall(id) ==
    /\ \A w \in Workers : pc[w] = "idle"
    /\ nAppends < MaxAppends
    /\ tracesMu = NoLock
    /\ length > 0
    /\ LET b == IF Lookup(id) # NoBuf THEN Lookup(id) ELSE Len(bufs) + 1
           heap == IF Lookup(id) # NoBuf THEN bufs
                   ELSE Append(bufs, NewRingBuffer(length))
       IN  /\ bufs' = [heap EXCEPT ![b] = Push(@, nAppends + 1)]
           /\ traces' = [traces EXCEPT ![id] = b]
           /\ tracesUpdates' = IF Lookup(id) # NoBuf THEN tracesUpdates
                               ELSE [tracesUpdates EXCEPT ![id] = now]
    /\ nAppends' = nAppends + 1
    /\ lastRet' = [lastRet EXCEPT ![id] = nAppends + 1]
    /\ done' = [done EXCEPT ![id] = Append(@, nAppends + 1)]
    /\ UNCHANGED <<ringVars, scoreVars, rulesVars, httpVars, queryVars, sinkVars, procVars,
                   length, tracesMu, cleanTicker, tickC,
                   now, pc, arg, buffer, rpc, outdated, got,
                   stopRet, overlapped, deleted, expired>>

(* ---------------------- rule.Rule, scorer.RulesScorer ------------------- *)
\* trace.Trace is a map from metric name to value; the nil map is a trace too
Metrics == {"clicks"}
NilTrace == [nil |-> TRUE, m |-> <<>>]
TraceSet ==
    {NilTrace} \cup
    {[nil |-> FALSE, m |-> f] : f \in UNION {[S -> 0..1] : S \in SUBSET Metrics}}

\* Rule.When: CEL expressions over the declared variables.  Init accepts any
\* expression that parses and type-checks, boolean or not.
Whens == {"clicks > 0", "clicks"}

\* Rule.Then: a Score, values in halves
RuleThens == {("a" :> 3), ("a" :> -2), ("a" :> NaN), ("a" :> 1 @@ "b" :> -2)}
RuleSet == [when : Whens, then : RuleThens]

\* prepareScorers: scorer.NewRulesScorer(rules, -1.0, 1.0)
BootstrapBounds == <<-One, One>>
\* the bounds of the bootstrap, and those the constructor's comment calls typical
RsBounds == {BootstrapBounds, <<0, One>>}

\* r.program.Eval(map[string]any(t)): a variable the activation lacks is an
\* evaluation error; otherwise the value of the expression (booleans as 1/0)
ProgramEval(when, t) ==
    IF t.nil \/ "clicks" \notin DOMAIN t.m
    THEN [err |-> TRUE, type |-> None, v |-> 0]
    ELSE IF when = "clicks > 0"
    THEN [err |-> FALSE, type |-> "bool", v |-> IF t.m["clicks"] > 0 THEN 1 ELSE 0]
    ELSE [err |-> FALSE, type |-> "int", v |-> t.m["clicks"]]

\* result.Value() == false
IsFalse(res) == res.type = "bool" /\ res.v = 0

\* mutant of Eval: a failed evaluation counts as a match
EvalThenOnError(r, t) ==
    LET res == ProgramEval(r.when, t)
    IN  IF ~res.err /\ IsFalse(res)
        THEN [score |-> EmptyScore, err |-> NoErr]
        ELSE [score |-> r.then, err |-> NoErr]

\* mutant of Eval: the evaluation error is handed to the caller
EvalPropagatesError(r, t) ==
    LET res == ProgramEval(r.when, t)
    IN  IF res.err
        THEN [score |-> EmptyScore, err |-> [kind |-> "cel.Error", msg |-> <<"eval">>]]
        ELSE IF IsFalse(res)
        THEN [score |-> EmptyScore, err |-> NoErr]
        ELSE [score |-> r.then, err |-> NoErr]

\* mutant of Eval: the value of the predicate is not looked at
EvalAlwaysThen(r, t) == [score |-> r.then, err |-> NoErr]

\* Rule.Eval, rule.go lines 59-66
Eval(r, t) ==
    LET res == ProgramEval(r.when, t)
    IN  IF res.err \/ IsFalse(res)
        THEN [score |-> EmptyScore, err |-> NoErr]
        ELSE [score |-> r.then, err |-> NoErr]

\* mutant of ClampMinMax: the bounds are not applied after the addition
ClampNone(x, lo, hi) == x

\* RulesScorer.Score lines 43-50: the switch on newScore
ClampMinMax(x, lo, hi) == IF FLt(x, lo) THEN lo ELSE IF FGt(x, hi) THEN hi ELSE x

\* lines 41-51: every key of delta is added to score and clamped
AddDelta(score, delta, lo, hi) ==
    [d \in (DOMAIN score) \cup (DOMAIN delta) |->
        IF d \in DOMAIN delta
        THEN ClampMinMax(FAdd(IF d \in DOMAIN score THEN score[d] ELSE 0, delta[d]),
                         lo, hi)
        ELSE score[d]]

\* lines 35-51, the body of the inner loop for one rule and one trace
ApplyRule(score, r, t, lo, hi) ==
    LET e == Eval(r, t)
    IN  IF e.err # NoErr THEN score ELSE AddDelta(score, e.score, lo, hi)

\* the n-th (trace, rule) pair of the nested loops over nr rules
PairAt(n, nr) == <<((n - 1) \div nr) + 1, ((n - 1) % nr) + 1>>

\* score after the first n iterations of the inner loop body
RECURSIVE ScoreUpTo(_, _, _)
ScoreUpTo(rsv, ts, n) ==
    IF n = 0 THEN EmptyScore
    ELSE LET p == PairAt(n, Len(rsv.rules))
         IN  ApplyRule(ScoreUpTo(rsv, ts, n - 1), rsv.rules[p[2]], ts[p[1]],
                       rsv.min, rsv.max)

\* RulesScorer.Score as a function of the scorer and the traces
RulesScore(rsv, ts) == ScoreUpTo(rsv, ts, Len(ts) * Len(rsv.rules))

NewRulesScorer(rules, min, max) == [rules |-> rules, min |-> min, max |-> max]

SeqsUpTo(S, n) == UNION {[1..k -> S] : k \in 0..n}

NoRsRun == [pc |-> "idle", traces |-> <<>>, ti |-> 0, ri |-> 0, score |-> EmptyScore]
NoRsEval == [called |-> FALSE, rule |-> [when |-> None, then |-> EmptyScore],
             trace |-> NilTrace, score |-> EmptyScore, err |-> NoErr]
NoRsRet == [called |-> FALSE, traces |-> <<>>, score |-> EmptyScore, err |-> NoErr]

InitRulesIdle ==
    /\ rs = NewRulesScorer(<<>>, BootstrapBounds[1], BootstrapBounds[2])
    /\ rsRun = NoRsRun
    /\ rsEval = NoRsEval
    /\ rsRet = NoRsRet

\* RulesScorer.Score(ctx, traces), line 31: score := make(score.Score)
RsCall(ts) ==
    /\ rsRun.pc = "idle"
    /\ rsRun' = [pc |-> "loop", traces |-> ts, ti |-> 1, ri |-> 1, score |-> EmptyScore]
    /\ rsRet' = NoRsRet
    /\ rsEval' = NoRsEval
    /\ UNCHANGED <<ringVars, repoVars, ghostVars, scoreVars, rs, httpVars, queryVars, sinkVars, procVars>>

\* lines 33-52: one iteration of the inner loop, rule ri on trace ti
RsStep ==
    /\ rsRun.pc = "loop"
    /\ rsRun.ti <= Len(rsRun.traces)
    /\ rsRun.ri <= Len(rs.rules)
    /\ LET r == rs.rules[rsRun.ri]
           t == rsRun.traces[rsRun.ti]
           e == Eval(r, t)
           last == rsRun.ri = Len(rs.rules)
       IN  /\ rsEval' = [called |-> TRUE, rule |-> r, trace |-> t,
                         score |-> e.score, err |-> e.err]
           /\ rsRun' = [rsRun EXCEPT
                           !.score = ApplyRule(@, r, t, rs.min, rs.max),
                           !.ri = IF last THEN 1 ELSE @ + 1,
                           !.ti = IF last THEN @ + 1 ELSE @]
    /\ UNCHANGED <<ringVars, repoVars, ghostVars, scoreVars, rs, rsRet, httpVars, queryVars, sinkVars, procVars>>

\* line 55: both loops are over, return score, nil
RsReturn ==
    /\ rsRun.pc = "loop"
    /\ rsRun.ti > Len(rsRun.traces) \/ Len(rs.rules) = 0
    /\ rsRet' = [called |-> TRUE, traces |-> rsRun.traces, score |-> rsRun.score,
                 err |-> NoErr]
    /\ rsRun' = NoRsRun
    /\ UNCHANGED <<ringVars, repoVars, ghostVars, scoreVars, rs, rsEval, httpVars, queryVars, sinkVars, procVars>>

(* ----------------------- server.ApiV1Router.traceHandler ----------------- *)
\* ApiV1Router.tokenCookie, the configured cookie name
tokenCookie == "sid"
Cookies ==
    [name : {tokenCookie}, value : {""} \cup Tokens]
        \cup {[name |-> "other", value |-> CHOOSE u \in Tokens : TRUE]}
CookieLists == SeqsUpTo(Cookies, 2)

\* What a request body can be: a read error, bytes that are not JSON, JSON
\* that is not an object, the JSON null, a JSON object
Bodies == {"unreadable", "malformed", "array", "null", "object"}
Requests == [body : Bodies, cookies : CookieLists]

\* io.ReadAll(r.Body), line 64
ReadAll(body) == [err |-> body = "unreadable"]

\* json.Unmarshal(body, &trace), line 74: only an object or null decodes into
\* the map; null leaves the nil map.  obj is the trace an object decodes to.
Unmarshal(body, obj) ==
    IF body = "object" THEN [err |-> FALSE, trace |-> obj]
    ELSE IF body = "null" THEN [err |-> FALSE, trace |-> Zero]
    ELSE [err |-> TRUE, trace |-> Zero]

\* mutant of TokenOf: the cookie name is not compared
TokenOfAnyCookie(cookies) == IF cookies = <<>> THEN "" ELSE cookies[1].value

\* lines 81-88: the value of the first cookie named tokenCookie, else ""
TokenOf(cookies) ==
    LET named == {i \in 1..Len(cookies) : cookies[i].name = tokenCookie}
    IN  IF named = {} THEN ""
        ELSE cookies[CHOOSE i \in named : \A j \in named : i <= j].value

\* repoAppends, sinkAppends (ghost): the <<token, trace>> arguments of the
\* tracesRepo.Append and datasetRepo.Append calls the handler made
NoHandled ==
    [called |-> FALSE, body |-> None, cookies |-> <<>>, status |-> 0, token |-> "",
     trace |-> Zero, repoAppends |-> <<>>, sinkAppends |-> <<>>, sinkOk |-> FALSE]

Answer422(req) ==
    [called |-> TRUE, body |-> req.body, cookies |-> req.cookies, status |-> 422,
     token |-> "", trace |-> Zero, repoAppends |-> <<>>, sinkAppends |-> <<>>,
     sinkOk |-> FALSE]

InitHttpIdle ==
    /\ datasetRepo = "nil"
    /\ dataset = <<>>
    /\ handled = NoHandled

\* mutant of TraceHandler: the trace is stored before the token is checked
TraceHandlerAppendFirst(req, sinkOk) ==
    /\ \A w \in Workers : pc[w] = "idle"
    /\ nAppends < MaxIngest
    /\ tracesMu = NoLock
    /\ length > 0
    /\ LET id == IF TokenOf(req.cookies) = "" THEN CHOOSE u \in Tokens : TRUE
                 ELSE TokenOf(req.cookies)
           t == nAppends + 1
           b == IF Lookup(id) # NoBuf THEN Lookup(id) ELSE Len(bufs) + 1
           heap == IF Lookup(id) # NoBuf THEN bufs
                   ELSE Append(bufs, NewRingBuffer(length))
       IN  /\ bufs' = [heap EXCEPT ![b] = Push(@, t)]
           /\ traces' = [traces EXCEPT ![id] = b]
           /\ tracesUpdates' = IF Lookup(id) # NoBuf THEN tracesUpdates
                               ELSE [tracesUpdates EXCEPT ![id] = now]
           /\ nAppends' = nAppends + 1
           /\ lastRet' = [lastRet EXCEPT ![id] = t]
           /\ done' = [done EXCEPT ![id] = Append(@, t)]
           /\ handled' = Answer422(req)
    /\ UNCHANGED <<ringVars, scoreVars, rulesVars, datasetRepo, dataset,
                   queryVars, sinkVars, procVars,
                   length, tracesMu, cleanTicker, tickC, now, pc, arg, buffer,
                   rpc, outdated, got, stopRet, overlapped, deleted, expired>>

\* mutant of TraceHandler: the sink is written first and a failed write is
\* answered 500 with nothing stored
TraceHandlerSinkFatal(req, sinkOk) ==
    /\ \A w \in Workers : pc[w] = "idle"
    /\ tracesMu = NoLock
    /\ length > 0
    /\ LET parsed == Unmarshal(req.body, nAppends + 1)
           id == TokenOf(req.cookies)
           t == parsed.trace
       IN  IF ReadAll(req.body).err \/ parsed.err \/ Len(id) = 0
           THEN /\ handled' = Answer422(req)
                /\ UNCHANGED <<repoVars, ghostVars, dataset>>
           ELSE IF datasetRepo # "nil" /\ ~sinkOk
           THEN /\ handled' = [Answer422(req) EXCEPT !.status = 500, !.token = id,
                                                     !.sinkAppends = <<<<id, t>>>>]
                /\ UNCHANGED <<repoVars, ghostVars, dataset>>
           ELSE /\ nAppends < MaxIngest
                /\ LET b == IF Lookup(id) # NoBuf THEN Lookup(id) ELSE Len(bufs) + 1
                       heap == IF Lookup(id) # NoBuf THEN bufs
                               ELSE Append(bufs, NewRingBuffer(length))
                   IN  /\ bufs' = [heap EXCEPT ![b] = Push(@, t)]
                       /\ traces' = [traces EXCEPT ![id] = b]
                       /\ tracesUpdates' = IF Lookup(id) # NoBuf THEN tracesUpdates
                                           ELSE [tracesUpdates EXCEPT ![id] = now]
                /\ nAppends' = nAppends + 1
                /\ lastRet' = [lastRet EXCEPT ![id] = t]
                /\ done' = [done EXCEPT ![id] = Append(@, t)]
                /\ dataset' = IF datasetRepo # "nil"
                              THEN Append(dataset, <<id, t>>) ELSE dataset
                /\ handled' =
                      [called |-> TRUE, body |-> req.body, cookies |-> req.cookies,
                       status |-> 200, token |-> id, trace |-> t,
                       repoAppends |-> <<<<id, t>>>>,
                       sinkAppends |-> IF datasetRepo # "nil" THEN <<<<id, t>>>>
                                       ELSE <<>>,
                       sinkOk |-> datasetRepo # "nil"]
                /\ UNCHANGED <<length, tracesMu, cleanTicker, tickC, now, pc, arg,
                               buffer, rpc, outdated, got, stopRet, overlapped,
                               deleted, expired>>
    /\ UNCHANGED <<ringVars, scoreVars, rulesVars, datasetRepo,
                   queryVars, sinkVars, procVars>>

\* traceHandler, lines 63-103, one request from first line to response.
\* tracesRepo.Append runs with nothing interleaved (as AppendCall); sinkOk
\* says whether the write of datasetRepo.Append reaches the file.  The trace
\* an object body decodes to is the number of the Append, as in AppendLookup.
TraceHandler(req, sinkOk) ==
    /\ \A w \in Workers : pc[w] = "idle"
    /\ tracesMu = NoLock
    /\ length > 0
    /\ LET parsed == Unmarshal(req.body, nAppends + 1)
           id == TokenOf(req.cookies)
           t == parsed.trace
       IN  IF ReadAll(req.body).err \/ parsed.err \/ Len(id) = 0
           THEN /\ handled' = Answer422(req)
                /\ UNCHANGED <<repoVars, ghostVars, dataset>>
           ELSE /\ nAppends < MaxIngest
                /\ LET b == IF Lookup(id) # NoBuf THEN Lookup(id) ELSE Len(bufs) + 1
                       heap == IF Lookup(id) # NoBuf THEN bufs
                               ELSE Append(bufs, NewRingBuffer(length))
                   IN  /\ bufs' = [heap EXCEPT ![b] = Push(@, t)]
                       /\ traces' = [traces EXCEPT ![id] = b]
                       /\ tracesUpdates' = IF Lookup(id) # NoBuf THEN tracesUpdates
                                           ELSE [tracesUpdates EXCEPT ![id] = now]
                /\ nAppends' = nAppends + 1
                /\ lastRet' = [lastRet EXCEPT ![id] = t]
                /\ done' = [done EXCEPT ![id] = Append(@, t)]
                /\ dataset' = IF datasetRepo # "nil" /\ sinkOk
                              THEN Append(dataset, <<id, t>>) ELSE dataset
                /\ handled' =
                      [called |-> TRUE, body |-> req.body, cookies |-> req.cookies,
                       status |-> 200, token |-> id, trace |-> t,
                       repoAppends |-> <<<<id, t>>>>,
                       sinkAppends |-> IF datasetRepo # "nil" THEN <<<<id, t>>>>
                                       ELSE <<>>,
                       sinkOk |-> datasetRepo # "nil" /\ sinkOk]
                /\ UNCHANGED <<length, tracesMu, cleanTicker, tickC, now, pc, arg,
                               buffer, rpc, outdated, got, stopRet, overlapped,
                               deleted, expired>>
    /\ UNCHANGED <<ringVars, scoreVars, rulesVars, datasetRepo,
                   queryVars, sinkVars, procVars>>

(* ----------------------- server.ApiV1Router.scoreHandler ----------------- *)
\* NewCompositeScorer, line 72: the context every scorer is handed
csCtx == "background"

\* ctx.Done() is closed: context.Background() never is; the context of the
\* inbound request is once the client has gone
CtxDone(ctx) == ctx = "request" /\ query.cancelled

\* the entries of CompositeScorer.scorers that prepareScorers builds
MlScorer == [type |-> "ml"]
RulesScorerOf(rules) ==
    [type |-> "rules", rs |-> NewRulesScorer(rules, BootstrapBounds[1], BootstrapBounds[2])]

\* rules of the pipelines: +0.5 on a and -1.0 on b per trace with clicks, and
\* a rule file whose then holds .nan
RuleAB == [when |-> "clicks > 0", then |-> ("a" :> 1 @@ "b" :> -2)]
RuleNaN == [when |-> "clicks > 0", then |-> ("a" :> NaN)]
Pipelines ==
    {<<RulesScorerOf(<<>>)>>, <<RulesScorerOf(<<RuleAB>>)>>,
     <<RulesScorerOf(<<RuleNaN>>)>>, <<MlScorer>>,
     <<RulesScorerOf(<<RuleAB>>), MlScorer>>,
     <<MlScorer, RulesScorerOf(<<RuleAB>>)>>}

\* traces the collector sends: no click, one click
QueryTraces == {[nil |-> FALSE, m |-> ("clicks" :> c)] : c \in 0..1}

\* what the inference service does with one POST /batch
MlScores == {("a" :> 1), ("b" :> 3)}
MlResponses ==
    {[kind |-> k, score |-> EmptyScore] :
        k \in {"network", "timeout", "non200", "unreadable", "malformed",
               "wrongtype", "null"}}
        \cup {[kind |-> "object", score |-> sc] : sc \in MlScores}

\* mutant of ClientInputScore: the status code is not looked at and a body
\* that does not decode counts as the empty score
ClientInputScoreLenient(ctxDone, resp) ==
    IF ctxDone \/ resp.kind \in {"network", "timeout"}
    THEN [score |-> EmptyScore, err |-> [kind |-> "url.Error", msg |-> <<resp.kind>>]]
    ELSE [score |-> resp.score, err |-> NoErr]

\* ClientInputScorer.Score, rule.go lines 97-131, given what the exchange
\* brought: client.Do fails on a done context, a network failure or the
\* client's timeout; a status other than 200, an unreadable body and a body
\* that does not decode into map[string]float32 are errors; the JSON null
\* decodes to the nil map without error
ClientInputScore(ctxDone, resp) ==
    IF ctxDone
    THEN [score |-> EmptyScore, err |-> [kind |-> "url.Error", msg |-> <<"context canceled">>]]
    ELSE IF resp.kind \in {"network", "timeout"}
    THEN [score |-> EmptyScore, err |-> [kind |-> "url.Error", msg |-> <<resp.kind>>]]
    ELSE IF resp.kind = "non200"
    THEN [score |-> EmptyScore, err |-> [kind |-> "errorString", msg |-> <<"ML response error">>]]
    ELSE IF resp.kind = "unreadable"
    THEN [score |-> EmptyScore, err |-> [kind |-> "io.Error", msg |-> <<"read">>]]
    ELSE IF resp.kind = "malformed"
    THEN [score |-> EmptyScore, err |-> [kind |-> "json.SyntaxError", msg |-> <<"decode">>]]
    ELSE IF resp.kind = "wrongtype"
    THEN [score |-> EmptyScore, err |-> [kind |-> "json.UnmarshalTypeError", msg |-> <<"decode">>]]
    ELSE [score |-> resp.score, err |-> NoErr]

\* json.Marshal(score), router.go line 132: keys in sorted order, each value
\* as a decimal (whole part, fraction); a NaN value is an UnsupportedValueError
DimOrder == <<"a", "b">>
NumText(v) == <<v \div One, IF v % One = 0 THEN "" ELSE ".5">>
Marshal(score) ==
    IF \E d \in DOMAIN score : score[d] = NaN
    THEN [err |-> TRUE, text |-> <<>>]
    ELSE LET keys == SelectSeq(DimOrder, LAMBDA d : d \in DOMAIN score)
         IN  [err |-> FALSE,
              text |-> [i \in 1..Len(keys) |-> <<keys[i], NumText(score[keys[i]])>>]]

\* the response: status, and the body when w.Write was called
NoBody == [written |-> FALSE, text |-> <<>>]
\* n (ghost): the Append calls that preceded the request
NoQuery ==
    [pc |-> "idle", token |-> "", cancelled |-> FALSE, status |-> 0, body |-> NoBody,
     n |-> 0]
NoMlCall == [pc |-> "idle", k |-> 0, batch |-> <<>>, out |-> [score |-> EmptyScore, err |-> NoErr],
             resp |-> None, cancelled |-> "no"]

InitQueryIdle ==
    /\ query = NoQuery
    /\ mlCall = NoMlCall

\* one tracesRepo.Append(id, t) run from call to return with nothing
\* interleaved (as AppendCall), for a trace with contents; requests are served
\* one after another here, their interleavings are the subject of Spec
AppendTrace(id, t) ==
    /\ \A w \in Workers : pc[w] = "idle"
    /\ query.pc # "score"
    /\ nAppends < MaxAppends
    /\ tracesMu = NoLock
    /\ length > 0
    /\ LET b == IF Lookup(id) # NoBuf THEN Lookup(id) ELSE Len(bufs) + 1
           heap == IF Lookup(id) # NoBuf THEN bufs
                   ELSE Append(bufs, NewRingBuffer(length))
       IN  /\ bufs' = [heap EXCEPT ![b] = Push(@, t)]
           /\ traces' = [traces EXCEPT ![id] = b]
           /\ tracesUpdates' = IF Lookup(id) # NoBuf THEN tracesUpdates
                               ELSE [tracesUpdates EXCEPT ![id] = now]
    /\ nAppends' = nAppends + 1
    /\ lastRet' = [lastRet EXCEPT ![id] = t]
    /\ done' = [done EXCEPT ![id] = Append(@, t)]
    /\ UNCHANGED <<ringVars, scoreVars, rulesVars, httpVars, queryVars, sinkVars,
                   procVars, length, tracesMu, cleanTicker, tickC,
                   now, pc, arg, buffer, rpc, outdated, got,
                   stopRet, overlapped, deleted, expired>>

\* scoreHandler, lines 116-123: an empty path token is answered 422, any
\* other token is handed to compositeScorer.Score
QueryStart(token) ==
    /\ query.pc # "score"
    /\ scoreRun.pc = "idle"
    /\ IF Len(token) = 0
       THEN query' = [pc |-> "answered", token |-> token, cancelled |-> FALSE,
                      status |-> 422, body |-> NoBody, n |-> nAppends]
       ELSE query' = [pc |-> "score", token |-> token, cancelled |-> FALSE,
                      status |-> 0, body |-> NoBody, n |-> nAppends]
    /\ scoreRet' = NoScoreRet
    /\ mlCall' = NoMlCall
    /\ UNCHANGED <<ringVars, repoVars, ghostVars, scorers, scoreRun, rulesVars,
                   httpVars, sinkVars, procVars>>

\* the client goes away: the context of the inbound request is cancelled
QueryCancel ==
    /\ query.pc = "score"
    /\ ~query.cancelled
    /\ query' = [query EXCEPT !.cancelled = TRUE]
    /\ UNCHANGED <<ringVars, repoVars, ghostVars, scoreVars, rulesVars, httpVars,
                   mlCall, sinkVars, procVars>>

\* compositeScorer.Score(token) enters: the Get of lines 41-45
QueryScoreGet ==
    /\ query.pc = "score"
    /\ scoreRet = NoScoreRet
    /\ ScoreGet(query.token)

\* scorer k is a RulesScorer: s.Score(cs.ctx, traces) and the merge
QueryRulesScorer ==
    /\ query.pc = "score"
    /\ scoreRun.pc = "loop"
    /\ scoreRun.k <= Len(scorers)
    /\ scorers[scoreRun.k].type = "rules"
    /\ ScorerReturns([score |-> RulesScore(scorers[scoreRun.k].rs, scoreRun.traces),
                      err |-> NoErr])

\* scorer k is a ClientInputScorer: the batch is posted, lines 98-109
MlSend ==
    /\ query.pc = "score"
    /\ scoreRun.pc = "loop"
    /\ scoreRun.k <= Len(scorers)
    /\ scorers[scoreRun.k].type = "ml"
    /\ mlCall.k # scoreRun.k
    /\ mlCall' = [pc |-> "inflight", k |-> scoreRun.k, batch |-> scoreRun.traces,
                  out |-> [score |-> EmptyScore, err |-> NoErr],
                  resp |-> None,
                  cancelled |-> IF query.cancelled THEN "before" ELSE "no"]
    /\ UNCHANGED <<ringVars, repoVars, ghostVars, scoreVars, rulesVars, httpVars,
                   query, sinkVars, procVars>>

\* client.Do returns and lines 110-130 run; cancelled (ghost) records
\* whether the inbound request was cancelled before the batch was posted
\* ("before") or while the call was in flight ("inflight")
MlRespond(resp) ==
    /\ mlCall.pc = "inflight"
    /\ mlCall' = [mlCall EXCEPT !.pc = "done",
                                !.out = ClientInputScore(CtxDone(csCtx), resp),
                                !.resp = resp.kind,
                                !.cancelled = IF query.cancelled /\ @ = "no"
                                              THEN "inflight" ELSE @]
    /\ UNCHANGED <<ringVars, repoVars, ghostVars, scoreVars, rulesVars, httpVars,
                   query, sinkVars, procVars>>

\* the ClientInputScorer's result reaches the loop of CompositeScorer.Score
MlReturn ==
    /\ query.pc = "score"
    /\ mlCall.pc = "done"
    /\ mlCall.k = scoreRun.k
    /\ ScorerReturns(mlCall.out)

\* compositeScorer.Score returns after the last scorer
QueryScoreReturn ==
    /\ query.pc = "score"
    /\ ScoreReturn

\* mutant of QueryAnswer: a score that does not marshal is answered as
\* not found
QueryAnswerMarshal404 ==
    /\ query.pc = "score"
    /\ scoreRun.pc = "idle"
    /\ scoreRet # NoScoreRet
    /\ LET m == Marshal(scoreRet.result)
       IN  query' = [query EXCEPT
                        !.pc = "answered",
                        !.status = IF scoreRet.err # NoErr \/ m.err THEN 404 ELSE 200,
                        !.body = IF scoreRet.err # NoErr \/ m.err THEN NoBody
                                 ELSE [written |-> TRUE, text |-> m.text]]
    /\ UNCHANGED <<ringVars, repoVars, ghostVars, scoreVars, rulesVars, httpVars,
                   mlCall, sinkVars, procVars>>

\* scoreHandler, lines 124-139: 404 on any error of Score, 400 when the score
\* does not marshal, else the body (status 200)
QueryAnswer ==
    /\ query.pc = "score"
    /\ scoreRun.pc = "idle"
    /\ scoreRet # NoScoreRet
    /\ LET m == Marshal(scoreRet.result)
       IN  query' = [query EXCEPT
                        !.pc = "answered",
                        !.status = IF scoreRet.err # NoErr THEN 404
                                   ELSE IF m.err THEN 400 ELSE 200,
                        !.body = IF scoreRet.err # NoErr \/ m.err THEN NoBody
                                 ELSE [written |-> TRUE, text |-> m.text]]
    /\ UNCHANGED <<ringVars, repoVars, ghostVars, scoreVars, rulesVars, httpVars,
                   mlCall, sinkVars, procVars>>

(* -------------------------- dataset.JsonDatasetRepository --------------- *)
\* record times: a date whose day differs from its month, one where they
\* agree, one at the end of a year
SinkTimes ==
    {[year |-> 2024, month |-> 3, day |-> 15, hour |-> 13, minute |-> 4, second |-> 59],
     [year |-> 2024, month |-> 7, day |-> 7, hour |-> 0, minute |-> 30, second |-> 1],
     [year |-> 2025, month |-> 12, day |-> 31, hour |-> 23, minute |-> 59, second |-> 58]}

\* traces handed to the sink: the nil map, a decoded object, and a map with a
\* value encoding/json rejects
SinkTraces ==
    {NilTrace, [nil |-> FALSE, m |-> ("clicks" :> 1)], [nil |-> FALSE, m |-> ("clicks" :> NaN)]}

\* time.Time.Format: the layout cut into its chunks; "2006" stands for the
\* year, "01" for the month, "02" for the day of the month, "15" for the
\* hour, "04" for the minute, "05" for the second, anything else for itself
StdChunk(c, t) ==
    CASE c = "2006" -> t.year
      [] c = "01" -> t.month
      [] c = "02" -> t.day
      [] c = "15" -> t.hour
      [] c = "04" -> t.minute
      [] c = "05" -> t.second
      [] OTHER -> c
Format(t, layout) == [i \in 1..Len(layout) |-> StdChunk(layout[i], t)]

\* part_000 line 45: the layout "2006-01-01 15:04:05"
TimeLayout == <<"2006", "-", "01", "-", "01", " ", "15", ":", "04", ":", "05">>

\* slog.Value.Any() of an attribute: the interface value holding the argument
AnyOfString(str) == [type |-> "string", isNil |-> FALSE, v |-> str]
AnyOfTrace(t) == [type |-> "trace.Trace", isNil |-> t.nil, v |-> t]

\* a.Value.Any() != nil: an interface holding a typed nil map is not nil
AnyIsNil(a) == a.type = None

\* encoding/json of an attribute value
JsonOf(a) ==
    IF a.type = "string" THEN [json |-> "string", v |-> a.v]
    ELSE IF a.isNil THEN [json |-> "null", v |-> <<>>]
    ELSE [json |-> "object", v |-> a.v.m]
JsonFails(a) == a.type = "trace.Trace" /\ ~a.isNil /\ \E k \in DOMAIN a.v.m : a.v.m[k] = NaN

\* mutant of Handle: a value that is a nil map is left out as well
HandleDropsNilMap(r) ==
    LET kept == {i \in 1..Len(r.attrs) :
                    r.attrs[i].key # "" /\ ~AnyIsNil(r.attrs[i].value)
                    /\ ~r.attrs[i].value.isNil}
        keys == {"time"} \cup {r.attrs[i].key : i \in kept}
        last(k) == CHOOSE i \in kept : r.attrs[i].key = k
                                       /\ \A j \in kept : r.attrs[j].key = k => j <= i
    IN  IF \E i \in kept : JsonFails(r.attrs[i].value)
        THEN [err |-> TRUE, line |-> <<>>]
        ELSE [err |-> FALSE,
              line |-> [k \in keys |->
                          IF \E i \in kept : r.attrs[i].key = k
                          THEN JsonOf(r.attrs[last(k)].value)
                          ELSE [json |-> "string", v |-> Format(r.time, TimeLayout)]]]

\* customJSONHandler.Handle, lines 41-65, up to the Write: attrs starts with
\* time, every attribute with a key and a non-nil value is stored under its
\* key (a later one wins), and the map is marshalled into one line
Handle(r) ==
    LET kept == {i \in 1..Len(r.attrs) :
                    r.attrs[i].key # "" /\ ~AnyIsNil(r.attrs[i].value)}
        keys == {"time"} \cup {r.attrs[i].key : i \in kept}
        last(k) == CHOOSE i \in kept : r.attrs[i].key = k
                                       /\ \A j \in kept : r.attrs[j].key = k => j <= i
    IN  IF \E i \in kept : JsonFails(r.attrs[i].value)
        THEN [err |-> TRUE, line |-> <<>>]
        ELSE [err |-> FALSE,
              line |-> [k \in keys |->
                          IF \E i \in kept : r.attrs[i].key = k
                          THEN JsonOf(r.attrs[last(k)].value)
                          ELSE [json |-> "string", v |-> Format(r.time, TimeLayout)]]]

\* r.logger.Info("", "token", token, "trace", t): the slog.Record built at
\* time at
InfoRecord(at, token, t) ==
    [time |-> at, msg |-> "",
     attrs |-> <<[key |-> "token", value |-> AnyOfString(token)],
                 [key |-> "trace", value |-> AnyOfTrace(t)]>>]

InitSinkIdle ==
    /\ sinkFile = <<>>
    /\ sinkLog = <<>>

\* JsonDatasetRepository.Append(token, t), lines 117-119, at time at; writeOk
\* says whether lumberjack's Write of the line succeeds.  Nothing is
\* returned: ok (ghost) records whether the line reached the file.
SinkAppend(token, t, at, writeOk) ==
    /\ Len(sinkLog) < MaxSinkAppends
    /\ LET h == Handle(InfoRecord(at, token, t))
           ok == ~h.err /\ writeOk
       IN  /\ sinkFile' = IF ok THEN Append(sinkFile, h.line) ELSE sinkFile
           /\ sinkLog' = Append(sinkLog, [token |-> token, trace |-> t, time |-> at,
                                          ok |-> ok])
    /\ UNCHANGED <<ringVars, repoVars, ghostVars, scoreVars, rulesVars, httpVars,
                   queryVars, procVars>>

(* ---------------------------------- main -------------------------------- *)
NoProc == [pc |-> "idle"]

\* configuration: the scorer types
ScorerTypeML == "ml"
ScorerTypeRules == "rules"

\* the rule files on disk: what os.ReadFile and yaml.Unmarshal make of each
\* path.  parse.yaml, check.yaml and program.yaml hold a good rule followed
\* by one whose When env.Parse, env.Check or env.Program rejects; missing.yaml
\* cannot be read, broken.yaml is not YAML.
BadRule(stage) ==
    [when |-> CASE stage = "parse" -> "clicks >"
                [] stage = "check" -> "nosuch > 0"
                [] stage = "program" -> "<rejected by Program>",
     then |-> ("a" :> 1)]
ReadFile(file) ==
    LET rules == CASE file = "ok.yaml" -> <<RuleAB>>
                   [] file = "parse.yaml" -> <<RuleAB, BadRule("parse")>>
                   [] file = "check.yaml" -> <<RuleAB, BadRule("check")>>
                   [] file = "program.yaml" -> <<RuleAB, BadRule("program")>>
                   [] OTHER -> <<>>
    IN  [readable |-> file # "missing.yaml", yaml |-> file \notin {"missing.yaml", "broken.yaml"},
         rules |-> rules]

\* ScorerConfig: Model and Url both carry the mapstructure key "model", so
\* the two fields of an ml entry hold the same string
ScorerConfigs ==
    {[type |-> ScorerTypeML, model |-> m, url |-> m, rules |-> ""] :
        m \in {"", "forest", "%zz"}}
    \cup {[type |-> ScorerTypeRules, model |-> "", url |-> "", rules |-> p] :
            p \in {"ok.yaml", "empty.yaml", "broken.yaml", "parse.yaml", "check.yaml",
                   "program.yaml", "missing.yaml", ""}}
    \cup {[type |-> "tree", model |-> "", url |-> "", rules |-> ""]}

\* the configuration file: one fault at a time on top of a well-formed file.
\* file is what viper.ReadInConfig / Unmarshal make of it.
Configs(n) ==
    LET good == {[file |-> "ok", level |-> "info", address |-> ":8080", token |-> "bean",
                  scorers |-> sc, dataset |-> f] :
                     sc \in SeqsUpTo(ScorerConfigs, n),
                     f \in {"", "/var/log/bean/dataset.log"}}
    IN  good
        \cup {[c EXCEPT !.file = x] : c \in good, x \in {"missing", "malformed"}}
        \cup {[c EXCEPT !.level = x] : c \in good, x \in {"", "verbose"}}
        \cup {[c EXCEPT !.address = ""] : c \in good}
        \cup {[c EXCEPT !.token = ""] : c \in good}

ConfigErr(msg) == [kind |-> "config", msg |-> <<msg>>]

\* LoggerConfig.Validate, for level names in lower case
LoggerValidate(c) ==
    IF c.level = "" THEN ConfigErr("logger.level: must be specified")
    ELSE IF c.level \notin {"debug", "info", "warn", "warning", "error"} THEN ConfigErr("logger.level: unsupported level")
    ELSE NoErr

\* ServerConfig.Validate
ServerValidate(c) ==
    IF c.address = "" THEN ConfigErr("server.address: must be specified") ELSE NoErr

\* ScorerConfig.Validate; url.Parse fails on an invalid escape
ScorerValidate(s) ==
    IF s.type = ScorerTypeML
    THEN IF s.model = "" THEN ConfigErr("ML scorer: model name must be specified")
         ELSE IF s.url = "%zz" THEN ConfigErr("ML scorer: URL is incorrect")
         ELSE NoErr
    ELSE IF s.type = ScorerTypeRules
    THEN IF s.rules = "" THEN ConfigErr("scorer rules: path must be specified")
         ELSE NoErr
    ELSE ConfigErr("Scorer type must be specified")

\* AnalysisConfig.Validate: the first scorer that fails decides
AnalysisValidate(c) ==
    IF Len(c.scorers) = 0 THEN ConfigErr("analysis.scorers: must be specified")
    ELSE LET bad == {i \in 1..Len(c.scorers) : ScorerValidate(c.scorers[i]) # NoErr}
         IN  IF bad # {}
             THEN ScorerValidate(c.scorers[CHOOSE i \in bad : \A j \in bad : i <= j])
             ELSE IF c.token = "" THEN ConfigErr("analysis.token: must be specified")
             ELSE NoErr

\* AppConfig.Validate: logger, server, analysis, the first error wins
Validate(c) ==
    IF LoggerValidate(c) # NoErr THEN LoggerValidate(c)
    ELSE IF ServerValidate(c) # NoErr THEN ServerValidate(c)
    ELSE AnalysisValidate(c)

\* configuration.LoadConfig
LoadConfig(c) ==
    IF c.file = "missing" THEN ConfigErr("error reading config file")
    ELSE IF c.file = "malformed" THEN ConfigErr("error unmarshaling config")
    ELSE IF Validate(c) # NoErr THEN ConfigErr("invalid config")
    ELSE NoErr

\* trace.NewMovementTraceEnv: cel.NewEnv over the fixed declarations
NewMovementTraceEnv == [env |-> "movement", err |-> NoErr]

\* Rule.Init: env.Parse, env.Check, env.Program of r.When
RuleInit(r) ==
    LET failed == {st \in {"parse", "check", "program"} : r.when = BadRule(st).when}
    IN  IF failed = {} THEN NoErr
        ELSE [kind |-> "cel", msg |-> <<CHOOSE st \in failed : TRUE>>]

\* rule.LoadFromFile(file, trace.NewMovementTraceEnv): the rules and the error
\* it returns; a nil slice is the empty sequence
LoadFromFile(file) ==
    LET f == ReadFile(file)
        bad == {i \in 1..Len(f.rules) :
                   NewMovementTraceEnv.err # NoErr \/ RuleInit(f.rules[i]) # NoErr}
    IN  IF ~f.readable
        THEN [rules |-> <<>>, err |-> [kind |-> "fs.PathError", msg |-> <<file>>]]
        ELSE IF ~f.yaml
        THEN [rules |-> <<>>, err |-> [kind |-> "yaml", msg |-> <<file>>]]
        ELSE IF bad = {} THEN [rules |-> f.rules, err |-> NoErr]
        ELSE LET i == CHOOSE i \in bad : \A j \in bad : i <= j
             IN  [rules |-> <<>>,
                  err |-> IF NewMovementTraceEnv.err # NoErr
                          THEN NewMovementTraceEnv.err ELSE RuleInit(f.rules[i])]

\* the process before main runs with configuration file c
\*   pc          position in main
\*   registered  signal.NotifyContext has run
\*   ctxDone     appCtx is done: SIGINT or SIGTERM came after NotifyContext
\*   reaper      go tracesRepo.Serve() has run
\*   srv         "none", "new", "spawned" (go srv.ListenAndServe() has run),
\*               "listening", "failed" (the listener could not bind), "closed"
\*   listened    ghost: the server has accepted connections at some time
\*   used        ghost: the scorers a score request has been answered with
\*   sinkClosed  the dataset sink is closed
\*   exit        exit status: NoExit while running, 0, 1, 2 (panic) or BySignal
NoExit == -1
BySignal == 130     \* what a shell reports for death by SIGINT
NewProc(c) ==
    [pc |-> "start", config |-> c, datasetRepo |-> "nil", registered |-> FALSE,
     ctxDone |-> FALSE, reaper |-> FALSE, scorers |-> <<>>, srv |-> "none",
     listened |-> FALSE, used |-> None, shutdownErr |-> FALSE,
     sinkClosed |-> FALSE, exit |-> NoExit]

Running == proc.pc \notin {"idle", "exited"}

Exit(p, code) == [p EXCEPT !.pc = "exited", !.exit = code]

\* main, lines 79-83
MainLoadConfig ==
    /\ proc.pc = "start"
    /\ proc' = IF LoadConfig(proc.config) # NoErr THEN Exit(proc, 1)
               ELSE [proc EXCEPT !.pc = "dataset"]
    /\ UNCHANGED <<ringVars, repoVars, ghostVars, scoreVars, rulesVars, httpVars,
                   queryVars, sinkVars>>

\* main, lines 85-89: the sink exists only when dataset.file is set
MainDataset ==
    /\ proc.pc = "dataset"
    /\ proc' = [proc EXCEPT !.pc = "notify",
                            !.datasetRepo = IF proc.config.dataset # "" THEN "json"
                                            ELSE "nil"]
    /\ UNCHANGED <<ringVars, repoVars, ghostVars, scoreVars, rulesVars, httpVars,
                   queryVars, sinkVars>>

\* main, line 91
MainNotifyContext ==
    /\ proc.pc = "notify"
    /\ proc' = [proc EXCEPT !.pc = "repo", !.registered = TRUE]
    /\ UNCHANGED <<ringVars, repoVars, ghostVars, scoreVars, rulesVars, httpVars,
                   queryVars, sinkVars>>

\* main, lines 94-95: NewTracesRepository and go tracesRepo.Serve()
MainNewRepo ==
    /\ proc.pc = "repo"
    /\ proc' = [proc EXCEPT !.pc = "prepare", !.reaper = TRUE]
    /\ UNCHANGED <<ringVars, repoVars, ghostVars, scoreVars, rulesVars, httpVars,
                   queryVars, sinkVars>>

\* the reaper goroutine starts
MainServeStart ==
    /\ Running
    /\ proc.reaper
    /\ ServeStart

\* mutant of PrepareScorer: a rules file that does not load is logged and the
\* scorer is built from what LoadFromFile returned
PrepareScorerKeepsGoing(p) ==
    LET sc == p.config.scorers[Len(p.scorers) + 1]
    IN  IF sc.type = ScorerTypeML
        THEN [p EXCEPT !.scorers = Append(@, MlScorer)]
        ELSE IF sc.type = ScorerTypeRules
        THEN [p EXCEPT !.scorers = Append(@, RulesScorerOf(LoadFromFile(sc.rules).rules))]
        ELSE Exit(p, 1)

\* prepareScorers, lines 52-69: the body of the loop for the next entry of sc
PrepareScorer(p) ==
    LET sc == p.config.scorers[Len(p.scorers) + 1]
    IN  IF sc.type = ScorerTypeML
        THEN [p EXCEPT !.scorers = Append(@, MlScorer)]
        ELSE IF sc.type = ScorerTypeRules
        THEN LET l == LoadFromFile(sc.rules)
             IN  IF l.err # NoErr THEN Exit(p, 1)
                 ELSE [p EXCEPT !.scorers = Append(@, RulesScorerOf(l.rules))]
        ELSE Exit(p, 1)

\* main, line 97: one iteration of the loop of prepareScorers
MainPrepareScorer ==
    /\ proc.pc = "prepare"
    /\ Len(proc.scorers) < Len(proc.config.scorers)
    /\ proc' = PrepareScorer(proc)
    /\ UNCHANGED <<ringVars, repoVars, ghostVars, scoreVars, rulesVars, httpVars,
                   queryVars, sinkVars>>

\* main, lines 97-107: prepareScorers returns; NewCompositeScorer, NewServer
MainNewServer ==
    /\ proc.pc = "prepare"
    /\ Len(proc.scorers) = Len(proc.config.scorers)
    /\ proc' = [proc EXCEPT !.pc = "listen", !.srv = "new"]
    /\ UNCHANGED <<ringVars, repoVars, ghostVars, scoreVars, rulesVars, httpVars,
                   queryVars, sinkVars>>

\* main, lines 109-110: go srv.ListenAndServe()
MainGoListen ==
    /\ proc.pc = "listen"
    /\ proc' = [proc EXCEPT !.pc = "wait", !.srv = "spawned"]
    /\ UNCHANGED <<ringVars, repoVars, ghostVars, scoreVars, rulesVars, httpVars,
                   queryVars, sinkVars>>

\* Server.ListenAndServe in its goroutine: the listener binds or does not;
\* the error it returns is dropped
ListenAndServe(bound) ==
    /\ Running
    /\ proc.srv = "spawned"
    /\ proc' = [proc EXCEPT !.srv = IF bound THEN "listening" ELSE "failed",
                            !.listened = @ \/ bound]
    /\ UNCHANGED <<ringVars, repoVars, ghostVars, scoreVars, rulesVars, httpVars,
                   queryVars, sinkVars>>

\* a score request is answered by the listening server with the scorers the
\* CompositeScorer was built from
ServeScore ==
    /\ Running
    /\ proc.srv = "listening"
    /\ proc.used = None
    /\ proc' = [proc EXCEPT !.used = proc.scorers]
    /\ UNCHANGED <<ringVars, repoVars, ghostVars, scoreVars, rulesVars, httpVars,
                   queryVars, sinkVars>>

\* SIGINT or SIGTERM after signal.NotifyContext: appCtx is cancelled
Signal ==
    /\ Running
    /\ proc.registered
    /\ ~proc.ctxDone
    /\ proc' = [proc EXCEPT !.ctxDone = TRUE]
    /\ UNCHANGED <<ringVars, repoVars, ghostVars, scoreVars, rulesVars, httpVars,
                   queryVars, sinkVars>>

\* SIGINT or SIGTERM before signal.NotifyContext: the runtime's default
\* disposition ends the process
SignalEarly ==
    /\ Running
    /\ ~proc.registered
    /\ proc' = Exit(proc, BySignal)
    /\ UNCHANGED <<ringVars, repoVars, ghostVars, scoreVars, rulesVars, httpVars,
                   queryVars, sinkVars>>

\* main, lines 112-122: <-appCtx.Done(), then srv.Shutdown under the 10 s
\* deadline; its error (drained is false) is logged and main goes on
MainShutdown(drained) ==
    /\ proc.pc = "wait"
    /\ proc.ctxDone
    /\ proc' = [proc EXCEPT !.pc = "stop", !.srv = "closed",
                            !.shutdownErr = ~drained]
    /\ UNCHANGED <<ringVars, repoVars, ghostVars, scoreVars, rulesVars, httpVars,
                   queryVars, sinkVars>>

\* main, line 123: tracesRepo.Stop()
MainStop ==
    /\ proc.pc = "stop"
    /\ ~stopRet
    /\ Stop

\* main, lines 124-125: datasetRepo.Close() on the interface value, then main
\* returns.  A method call on the nil interface panics: exit status 2.
MainClose ==
    /\ proc.pc = "stop"
    /\ stopRet
    /\ proc' = IF proc.datasetRepo = "nil" THEN Exit(proc, 2)
               ELSE Exit([proc EXCEPT !.sinkClosed = TRUE], 0)
    /\ UNCHANGED <<ringVars, repoVars, ghostVars, scoreVars, rulesVars, httpVars,
                   queryVars, sinkVars>>

\* the parts of the service a specification does not exercise
InitRestIdle ==
    /\ InitQueryIdle
    /\ InitSinkIdle
    /\ proc = NoProc

(* --------------------------- specifications ----------------------------- *)
InitRing ==
    /\ \E size \in 1..MaxCap : rb = NewRingBuffer(size)
    /\ rbPushed = <<>>
    /\ rbRead = [op |-> None, val |-> <<>>, n |-> 0]
    /\ rbCall = [g \in Workers |-> NoRbCall]
    /\ InitRepo(L)
    /\ InitGhost
    /\ scorers = <<>>
    /\ scoreRun = NoScoreRun
    /\ scoreRet = NoScoreRet
    /\ InitRulesIdle
    /\ InitHttpIdle
    /\ InitRestIdle

NextRing ==
    \/ \E item \in Items : RingPush(item)
    \/ RingToSlice
    \/ \E i \in 0..MaxCap : RingAt(i)
    \/ RingLen

SpecRing == InitRing /\ [][NextRing]_vars

Init ==
    /\ InitRingIdle
    /\ InitRepo(L)
    /\ InitGhost
    /\ scorers = <<>>
    /\ scoreRun = NoScoreRun
    /\ scoreRet = NoScoreRet
    /\ InitRulesIdle
    /\ InitHttpIdle
    /\ InitRestIdle

Next ==
    \/ \E w \in Workers, id \in Tokens : AppendLookup(w, id)
    \/ \E w \in Workers : AppendCreate(w)
    \/ \E w \in Workers : AppendPush(w)
    \/ \E w \in Readers, id \in Tokens : Get(w, id)
    \/ \E w \in Workers : GetDone(w)
    \/ ServeStart
    \/ TickerFire
    \/ ReaperScan
    \/ ReaperDelete
    \/ Stop
    \/ Tick

Spec == Init /\ [][Next]_vars

\* NewCompositeScorer(scorers, tracesRepo) over a fresh repository
InitScore ==
    /\ InitRingIdle
    /\ InitRepo(L)
    /\ InitGhost
    /\ \E n \in 0..MaxScorers : scorers = [k \in 1..n |-> "TracesScorer"]
    /\ scoreRun = NoScoreRun
    /\ scoreRet = NoScoreRet
    /\ InitRulesIdle
    /\ InitHttpIdle
    /\ InitRestIdle

NextScore ==
    \/ \E id \in Tokens : AppendCall(id)
    \/ \E id \in Tokens : ScoreGet(id)
    \/ \E out \in ScorerOutcomes : ScorerReturns(out)
    \/ ScoreReturn

SpecScore == InitScore /\ [][NextScore]_vars

\* NewRulesScorer(rules, min, max) for every rule list and the bounds
InitRules ==
    /\ InitRingIdle
    /\ InitRepo(L)
    /\ InitGhost
    /\ scorers = <<>>
    /\ scoreRun = NoScoreRun
    /\ scoreRet = NoScoreRet
    /\ \E rules \in SeqsUpTo(RuleSet, MaxRules), b \in RsBounds :
          rs = NewRulesScorer(rules, b[1], b[2])
    /\ rsRun = NoRsRun
    /\ rsEval = NoRsEval
    /\ rsRet = NoRsRet
    /\ InitHttpIdle
    /\ InitRestIdle

NextRules ==
    \/ \E ts \in SeqsUpTo(TraceSet, MaxTraces) : RsCall(ts)
    \/ RsStep
    \/ RsReturn

SpecRules == InitRules /\ [][NextRules]_vars

\* NewApiV1Router over a fresh repository, with or without a dataset sink
InitIngest ==
    /\ InitRingIdle
    /\ InitRepo(L)
    /\ InitGhost
    /\ scorers = <<>>
    /\ scoreRun = NoScoreRun
    /\ scoreRet = NoScoreRet
    /\ InitRulesIdle
    /\ datasetRepo \in {"nil", "json"}
    /\ dataset = <<>>
    /\ handled = NoHandled
    /\ InitRestIdle

NextIngest ==
    \E req \in Requests :
        \E sinkOk \in (IF datasetRepo = "nil" THEN {TRUE} ELSE BOOLEAN) :
            TraceHandler(req, sinkOk)

SpecIngest == InitIngest /\ [][NextIngest]_vars

\* the router over a fresh repository and one of the pipelines
InitQuery ==
    /\ InitRingIdle
    /\ InitRepo(L)
    /\ InitGhost
    /\ scorers \in Pipelines
    /\ scoreRun = NoScoreRun
    /\ scoreRet = NoScoreRet
    /\ InitRulesIdle
    /\ InitHttpIdle
    /\ InitRestIdle

NextQuery ==
    \/ \E id \in Tokens, t \in QueryTraces : AppendTrace(id, t)
    \/ \E token \in {""} \cup Tokens : QueryStart(token)
    \/ QueryCancel
    \/ QueryScoreGet
    \/ QueryRulesScorer
    \/ MlSend
    \/ \E resp \in MlResponses : MlRespond(resp)
    \/ MlReturn
    \/ QueryScoreReturn
    \/ QueryAnswer

SpecQuery == InitQuery /\ [][NextQuery]_vars

\* NewJsonDatasetRepository over an empty file
NextSink ==
    \E token \in Tokens, t \in SinkTraces, at \in SinkTimes, writeOk \in BOOLEAN :
        SinkAppend(token, t, at, writeOk)

SpecSink == Init /\ [][NextSink]_vars

\* the process from the start of main, for every configuration file
InitMain ==
    /\ InitRingIdle
    /\ InitRepo(L)
    /\ InitGhost
    /\ scorers = <<>>
    /\ scoreRun = NoScoreRun
    /\ scoreRet = NoScoreRet
    /\ InitRulesIdle
    /\ InitHttpIdle
    /\ InitQueryIdle
    /\ InitSinkIdle
    /\ \E c \in Configs(MaxScorers) : proc = NewProc(c)

NextMain ==
    \/ MainLoadConfig
    \/ MainDataset
    \/ MainNotifyContext
    \/ MainNewRepo
    \/ MainServeStart
    \/ MainPrepareScorer
    \/ MainNewServer
    \/ MainGoListen
    \/ \E bound \in BOOLEAN : ListenAndServe(bound)
    \/ ServeScore
    \/ Signal
    \/ SignalEarly
    \/ \E drained \in BOOLEAN : MainShutdown(drained)
    \/ MainStop
    \/ MainClose

SpecMain == InitMain /\ [][NextMain]_vars

\* the repository under concurrent Append and Get callers alone, built with
\* any length from -1 to L
InitAppend ==
    /\ InitRingIdle
    /\ \E len \in -1..L : InitRepo(len)
    /\ InitGhost
    /\ scorers = <<>>
    /\ scoreRun = NoScoreRun
    /\ scoreRet = NoScoreRet
    /\ InitRulesIdle
    /\ InitHttpIdle
    /\ InitRestIdle

NextAppend ==
    \/ \E w \in Workers, id \in Tokens : AppendLookup(w, id)
    \/ \E w \in Workers : AppendCreate(w)
    \/ \E w \in Workers : AppendPush(w)
    \/ \E w \in Readers, id \in Tokens : Get(w, id)
    \/ \E w \in Workers : GetDone(w)

SpecAppend == InitAppend /\ [][NextAppend]_vars

\* one ring of any capacity 1..MaxCap used by concurrent goroutines
NextRingConc ==
    \/ \E g \in Workers : PushStep(g)
    \/ \E g \in Workers : ToSliceStep(g)
    \/ \E g \in Workers, i \in 0..MaxCap : AtStep(g, i)

SpecRingConc == InitRing /\ [][NextRingConc]_vars

\* the repository lock by lock, with a fair scheduler.  A goroutine that
\* can run does run (weak fairness), and a goroutine blocked in Lock or
\* RLock gets the mutex if it is free again and again (strong fairness):
\* sync.RWMutex hands the mutex to blocked callers, a blocked Lock holds
\* new readers back and Unlock lets the blocked readers in first.  Callers,
\* the ticker, the clock and Stop are under no obligation.
NextLocks ==
    \/ \E w \in Workers, id \in Busy : AppendBegin(w, id)
    \/ \E w \in Workers : AppendFine(w)
    \/ \E w \in Readers, id \in Busy : GetBegin(w, id)
    \/ \E w \in Workers : GetFine(w)
    \/ ServeStart
    \/ TickerFire
    \/ ServeFine
    \/ Tick

Fairness ==
    /\ \A w \in Workers : SF_vars(AppendFine(w)) /\ SF_vars(GetFine(w))
    /\ SF_vars(ServeFine)

SpecLocks == Init /\ [][NextLocks]_vars /\ Fairness

\* the reaper, Stop and the Append callers, with the same fair scheduler
NextServe ==
    \/ \E w \in Workers, id \in Busy : AppendBegin(w, id)
    \/ \E w \in Workers : AppendFine(w)
    \/ ServeStart
    \/ TickerFire
    \/ ServeFine
    \/ Stop
    \/ Tick

SpecServe == Init /\ [][NextServe]_vars /\ Fairness

(* ------------------------------- claims --------------------------------- *)
NotFound(id) == <<id, <<>>, FALSE>>

\* C1: for every capacity and every sequence of pushes, ToSlice and
\* At(0..Len-1) give exactly the last min(N, capacity) pushed items, oldest
\* first, so the final element is the most recent push.
C1_RingKeepsLastPushes ==
    LET want == LastN(rbPushed, RbCap(rb))
        wantThen == LastN(SubSeq(rbPushed, 1, rbRead.n), RbCap(rb))
    IN  /\ RbLen(rb) = Min(Len(rbPushed), RbCap(rb))
        /\ ToSlice(rb) = want
        /\ \A i \in 0..(RbLen(rb) - 1) : At(rb, i) = want[i + 1]
        /\ rbPushed # <<>> =>
              ToSlice(rb)[RbLen(rb)] = rbPushed[Len(rbPushed)]
        /\ rbRead.op = "ToSlice" => rbRead.val = wantThen
        /\ rbRead.op = "At" =>
              rbRead.val[2] = IF rbRead.val[1] < Len(wantThen)
                              THEN wantThen[rbRead.val[1] + 1] ELSE "panic"
        /\ rbRead.op = "Len" => rbRead.val = <<Len(wantThen), RbCap(rb)>>

\* a ring of capacity >= 2 that has wrapped, read back by ToSlice
C1_Witness ==
    /\ RbCap(rb) >= 2
    /\ Len(rbPushed) > RbCap(rb)
    /\ rbRead.op = "ToSlice"
    /\ rbRead.n = Len(rbPushed)
    /\ rbRead.val = LastN(rbPushed, RbCap(rb))
    /\ rbRead.val[1] # rbRead.val[RbCap(rb)]

\* C2 (as claimed): once Append(t, x) has returned, with no other Append to
\* t and no reaper deletion since, Get(t) finds t with x as last element.
C2_AppendedIsLast ==
    \A id \in Tokens :
        (lastRet[id] # NoTrace /\ id \notin InAppend) =>
            /\ GetResult(id)[3]
            /\ GetResult(id)[2] # <<>>
            /\ GetResult(id)[2][Len(GetResult(id)[2])] = lastRet[id]

AppendStepOn(w, id) ==
    \/ AppendLookup(w, id)
    \/ arg[w].id = id /\ (AppendCreate(w) \/ AppendPush(w))

\* C3: every step of Append(t, x) leaves every other token's entry, ring
\* contents and lastTouch as they were.
C3_AppendFrame ==
    [][\A w \in Workers, id \in Tokens :
          AppendStepOn(w, id) =>
              \A u \in Tokens \ {id} :
                  /\ traces'[u] = traces[u]
                  /\ tracesUpdates'[u] = tracesUpdates[u]
                  /\ traces[u] # NoBuf =>
                        ToSlice(bufs'[traces[u]]) = ToSlice(bufs[traces[u]])]_vars

\* an Append to one token has returned while the other token holds traces
C3_Witness ==
    \E id \in Tokens, u \in Tokens :
        /\ id # u
        /\ lastRet[id] # NoTrace
        /\ lastRet[u] # NoTrace
        /\ GetResult(u)[2] = done[u]
        /\ done[id][Len(done[id])] > done[u][Len(done[u])]

\* C4: with no reaper deletion and Appends to a token issued one after
\* another, Get returns exactly the last min(N, L) of its traces in append
\* order; Get of a token never appended returns (nil, false).
C4_GetReturnsLastAppends ==
    \A id \in Tokens :
        /\ (~deleted /\ id \notin overlapped /\ id \notin InAppend /\ done[id] # <<>>) =>
              GetResult(id) = <<id, LastN(done[id], L), TRUE>>
        /\ (done[id] = <<>> /\ id \notin InAppend) => GetResult(id) = NotFound(id)

\* a Get that returned the last L of more than L sequential appends
C4_Witness ==
    \E id \in Tokens, w \in Workers :
        /\ ~deleted
        /\ id \notin overlapped
        /\ id \notin InAppend
        /\ Len(done[id]) > L
        /\ pc[w] = "got"
        /\ got[w] = <<id, LastN(done[id], L), TRUE>>

\* C5: every ring's element count lies in 0..L and its capacity stays L, so
\* Get never returns more than L traces.
C5_RingWithinCapacity ==
    /\ \A b \in 1..Len(bufs) :
          /\ RbLen(bufs[b]) \in 0..L
          /\ RbCap(bufs[b]) = L
          /\ Len(ToSlice(bufs[b])) <= L
    /\ \A id \in Tokens : Len(GetResult(id)[2]) <= L
    /\ \A w \in Workers : Len(got[w][2]) <= L

\* a Get returned a full ring after more than L appends to its token
C5_Witness ==
    \E id \in Tokens, w \in Workers :
        /\ Len(done[id]) > L
        /\ pc[w] = "got"
        /\ got[w][1] = id
        /\ Len(got[w][2]) = L

ReaperPassEnds ==
    /\ rpc' = "wait"
    /\ rpc = "delete" \/ (rpc = "wait" /\ tickC /\ ~tickC')

\* C6: when a reaper pass ends whose scan saw token t older than ttl, Get(t)
\* returns (nil, false); an absent token stays absent until an Append to it
\* creates its entry again.
C6_ExpiredIsRemoved ==
    [][/\ ReaperPassEnds =>
             \A id \in expired' : traces'[id] = NoBuf /\ tracesUpdates'[id] = NoTime
       /\ \A id \in Tokens :
             (traces[id] = NoBuf /\ traces'[id] # NoBuf) =>
                 \E w \in Workers :
                     pc[w] = "create" /\ arg[w].id = id /\ pc'[w] = "push"]_vars

\* the reaper has removed an expired token and a Get has returned not found
C6_Witness ==
    \E id \in expired, w \in Workers :
        /\ deleted
        /\ rpc = "wait"
        /\ done[id] # <<>>
        /\ id \notin InAppend
        /\ pc[w] = "got"
        /\ got[w] = NotFound(id)
        /\ GetResult(id) = NotFound(id)

\* C7 (as claimed): every Append updates the token's lastTouch to the time
\* of the call: when an Append returns, the lastTouch of its token is not
\* older than the call.
C7_AppendTouches ==
    [][\A w \in Workers :
          (pc[w] = "push" /\ pc'[w] = "idle" /\ traces'[arg[w].id] # NoBuf) =>
              tracesUpdates'[arg[w].id] >= arg[w].at]_vars

\* C8 (as claimed): once Stop has returned, no reaper pass removes a
\* session entry.
C8_StopHaltsReaper ==
    [][stopRet => ~(rpc = "delete" /\ rpc' = "wait" /\ traces' # traces)]_vars

InUnit(v) == v # NaN /\ v >= 0 /\ v <= One

\* C9 (as claimed): every value of a Score returned by CompositeScorer.Score
\* lies in [0.0, 1.0], whatever the scorers return.
C9_ScoreInUnitRange ==
    \A d \in DOMAIN scoreRet.result : InUnit(scoreRet.result[d])

\* C10 (as claimed): Score of a token without repository entry fails with
\* the ScoreNotFound error, of a kind no scorer produces, and invokes no
\* scorer.
C10_NotFoundIsDistinguished ==
    (scoreRet.id # None /\ ~scoreRet.found) =>
        /\ scoreRet.err = NotFoundTyped(scoreRet.id)
        /\ \A e \in ScorerErrors : e.kind # scoreRet.err.kind
        /\ scoreRet.invoked = 0

UpTo(n) == [i \in 1..n |-> i]

\* C11: Score invokes its scorers one at a time in configured order; when
\* scorer k returns an error the call ends there, that error is what the
\* caller gets, and no scorer after k has been invoked.
C11_ErrorAbortsPipeline ==
    /\ scoreRun.pc = "loop" =>
          /\ scoreRun.k \in 1..(Len(scorers) + 1)
          /\ scoreRun.calls = UpTo(scoreRun.k - 1)
          /\ scoreRun.failed = NoErr
    /\ scoreRet.found =>
          /\ scoreRet.err = scoreRet.failed
          /\ scoreRet.invoked \in 0..Len(scorers)
          /\ scoreRet.calls = UpTo(scoreRet.invoked)
          /\ scoreRet.err = NoErr => scoreRet.invoked = Len(scorers)

\* the first of two scorers failed: its error came back, the second never ran
C11_Witness ==
    /\ Len(scorers) >= 2
    /\ scoreRet.found
    /\ scoreRet.err \in ScorerErrors
    /\ scoreRet.failed = scoreRet.err
    /\ scoreRet.calls = <<1>>
    /\ scoreRun.pc = "idle"

SameWhereDefined(result, want) ==
    /\ DOMAIN result = DOMAIN want
    /\ \A d \in DOMAIN want : want[d] # NaN => result[d] = want[d]

\* C12: on success the result is, per dimension, the fold that starts at 0.0
\* and replaces the accumulator by clamp(accumulator + value, 0.0, 1.0) for
\* each scorer, in configured order, whose score contains the dimension; a
\* dimension in no scorer's score is absent.  (Finite values; NaN is C9.)
C12_PerStepFold ==
    /\ scoreRun.pc = "loop" => SameWhereDefined(scoreRun.result, scoreRun.want)
    /\ (scoreRet.found /\ scoreRet.err = NoErr) =>
          SameWhereDefined(scoreRet.result, scoreRet.want)

\* a successful call over two scorers that lacks one dimension and whose
\* result in the other is not the clamp of the plain sum: the first value was
\* cut at 1.0 and the second brought the result below 1.0, so the plain sum
\* is larger than the result and its clamp is too
C12_Witness ==
    /\ scoreRet.found
    /\ scoreRet.err = NoErr
    /\ scoreRet.calls = <<1, 2>>
    /\ DOMAIN scoreRet.result = {"a"}
    /\ scoreRet.cut["a"] = "up"
    /\ scoreRet.result["a"] = scoreRet.want["a"]
    /\ scoreRet.result["a"] < One

InBounds(v, lo, hi) == v # NaN /\ v >= lo /\ v <= hi

\* C13 (as claimed): for every rule list, every trace sequence and every
\* bounds min <= max, every value of the Score returned by RulesScorer.Score
\* lies in [min, max].
C13_RulesScoreInBounds ==
    rsRet.called =>
        \A d \in DOMAIN rsRet.score : InBounds(rsRet.score[d], rs.min, rs.max)

\* clamp(x, lo, hi) on finite values
RefClamp(x, lo, hi) == IF x < lo THEN lo ELSE IF x > hi THEN hi ELSE x

\* accumulator after one more delta: clamp(accumulator + delta, lo, hi) per
\* dimension of the delta; NaN marks a dimension where that is not defined
RefAdd(acc, delta, lo, hi) ==
    [d \in (DOMAIN acc) \cup (DOMAIN delta) |->
        IF d \notin DOMAIN delta THEN acc[d]
        ELSE LET a == IF d \in DOMAIN acc THEN acc[d] ELSE 0
             IN  IF a = NaN \/ delta[d] = NaN THEN NaN
                 ELSE RefClamp(a + delta[d], lo, hi)]

\* the saturating fold over the first n (trace, rule) pairs, traces oldest to
\* newest and, within a trace, rules in declaration order
RECURSIVE RefUpTo(_, _, _)
RefUpTo(rsv, ts, n) ==
    IF n = 0 THEN EmptyScore
    ELSE LET p == PairAt(n, Len(rsv.rules))
         IN  RefAdd(RefUpTo(rsv, ts, n - 1), Eval(rsv.rules[p[2]], ts[p[1]]).score,
                    rsv.min, rsv.max)

\* the plain sum of the deltas of the first n pairs
RECURSIVE SumUpTo(_, _, _)
SumUpTo(rsv, ts, n) ==
    IF n = 0 THEN EmptyScore
    ELSE LET p == PairAt(n, Len(rsv.rules))
         IN  PlainSum(SumUpTo(rsv, ts, n - 1), Eval(rsv.rules[p[2]], ts[p[1]]).score)

PairsDone == (rsRun.ti - 1) * Len(rs.rules) + (rsRun.ri - 1)

\* C14: RulesScorer.Score is the per-step saturating fold: traces oldest to
\* newest, within a trace the rules in declaration order, and after each
\* addition the accumulator is clamp(accumulator + delta, min, max).
\* (Finite deltas; a NaN delta is C13.)
C14_RulesPerStepFold ==
    /\ (rsRun.pc = "loop" /\ Len(rs.rules) > 0) =>
          SameWhereDefined(rsRun.score, RefUpTo(rs, rsRun.traces, PairsDone))
    /\ rsRet.called =>
          /\ SameWhereDefined(rsRet.score,
                 RefUpTo(rs, rsRet.traces, Len(rsRet.traces) * Len(rs.rules)))
          /\ rsRet.score = RulesScore(rs, rsRet.traces)

\* a returned score that differs, in a dimension with finite deltas, from the
\* plain sum clamped once at the end
C14_Witness ==
    /\ rsRet.called
    /\ Len(rsRet.traces) * Len(rs.rules) >= 2
    /\ LET sum == SumUpTo(rs, rsRet.traces, Len(rsRet.traces) * Len(rs.rules))
       IN  /\ "a" \in DOMAIN rsRet.score
           /\ sum["a"] # NaN
           /\ rsRet.score["a"] # NaN
           /\ rsRet.score["a"] # RefClamp(sum["a"], rs.min, rs.max)

\* the trace binds every variable the rules use
Evaluable(t) == ~t.nil /\ \A v \in Metrics : v \in DOMAIN t.m

C16_EvalThreeOutcomes ==
    rsEval.called =>
        LET r == rsEval.rule
            t == rsEval.trace
        IN  /\ rsEval.err = NoErr
            /\ rsEval.score \in {r.then, EmptyScore}
            /\ ~Evaluable(t) => rsEval.score = EmptyScore
            /\ (Evaluable(t) /\ r.when = "clicks > 0") =>
                  rsEval.score = IF t.m["clicks"] > 0 THEN r.then ELSE EmptyScore

\* Eval has just failed on a trace without the variable, after an earlier
\* pair of the same call matched
C16_Witness ==
    /\ rsEval.called
    /\ ~rsEval.trace.nil
    /\ ~Evaluable(rsEval.trace)
    /\ rsEval.score = EmptyScore
    /\ rsEval.err = NoErr
    /\ rsRun.pc = "loop"
    /\ rsRun.score # EmptyScore

Perms(n) == {f \in [1..n -> 1..n] : \A i, j \in 1..n : i # j => f[i] # f[j]}

\* C17 (as claimed): rule order is not important: every permutation of the
\* rule list gives the same Score for the same traces.
C17_RuleOrderIrrelevant ==
    rsRet.called =>
        \A f \in Perms(Len(rs.rules)) :
            RulesScore([rs EXCEPT !.rules = [i \in 1..Len(rs.rules) |-> rs.rules[f[i]]]],
                       rsRet.traces) = rsRet.score

\* C18 (as claimed): in the rules scorer built by the bootstrap the running
\* value of every dimension stays within [0.0, 1.0] after every rule
\* application.
C18_BootstrapRunningInUnit ==
    (<<rs.min, rs.max>> = BootstrapBounds /\ rsRun.pc = "loop") =>
        \A d \in DOMAIN rsRun.score :
            rsRun.score[d] # NaN => (rsRun.score[d] >= 0 /\ rsRun.score[d] <= One)

\* C19: an ingest request answered with 422 changes no state: the
\* repository's entries, ring contents and lastTouch values and the dataset
\* sink's contents are after the request what they were before it (and with
\* traces and bufs, what Get returns for every token).
C19_Rejected422ChangesNothing ==
    [][(handled'.called /\ handled'.status = 422) =>
          /\ traces' = traces
          /\ tracesUpdates' = tracesUpdates
          /\ bufs' = bufs
          /\ dataset' = dataset]_vars

\* a request without the named cookie was answered 422 while the repository
\* and the sink hold an earlier trace
C19_Witness ==
    /\ handled.called
    /\ handled.status = 422
    /\ handled.body = "object"
    /\ \A i \in 1..Len(handled.cookies) : handled.cookies[i].name # tokenCookie
    /\ handled.cookies # <<>>
    /\ dataset # <<>>
    /\ \E id \in Tokens : GetResult(id)[3]

\* the request carries a non-empty value in the first cookie of the
\* configured name
CarriesToken(cookies) ==
    \E i \in 1..Len(cookies) :
        /\ cookies[i].name = tokenCookie
        /\ cookies[i].value # ""
        /\ \A j \in 1..(i - 1) : cookies[j].name # tokenCookie

\* C20: the response is 200 exactly when the body is readable, parses as a
\* trace and the configured cookie carries a non-empty value; then the trace
\* is appended exactly once to the repository under that value and, with a
\* sink configured, exactly once to the sink under the same token; in every
\* other case the response is 422.
C20_IngestStatus ==
    handled.called =>
        LET ok == handled.body \in {"object", "null"} /\ CarriesToken(handled.cookies)
            call == <<handled.token, handled.trace>>
        IN  /\ handled.status = IF ok THEN 200 ELSE 422
            /\ handled.status = 200 =>
                  /\ CarriesToken(handled.cookies)
                  /\ \E i \in 1..Len(handled.cookies) :
                        /\ handled.cookies[i].name = tokenCookie
                        /\ handled.cookies[i].value = handled.token
                  /\ handled.repoAppends = <<call>>
                  /\ handled.sinkAppends = IF datasetRepo = "nil" THEN <<>> ELSE <<call>>
                  /\ GetResult(handled.token)[3]
                  /\ LET got1 == GetResult(handled.token)[2]
                     IN  got1 # <<>> /\ got1[Len(got1)] = handled.trace
                  /\ handled.sinkOk => dataset[Len(dataset)] = call
                  /\ Len(dataset) <= nAppends
            /\ handled.status = 422 =>
                  handled.repoAppends = <<>> /\ handled.sinkAppends = <<>>

\* a request whose second cookie is the configured one was answered 200 and
\* its trace is in the repository and in the sink
C20_Witness ==
    /\ handled.called
    /\ handled.status = 200
    /\ Len(handled.cookies) = 2
    /\ handled.cookies[1].name # tokenCookie
    /\ handled.token = handled.cookies[2].value
    /\ datasetRepo = "json"
    /\ dataset # <<>>
    /\ dataset[Len(dataset)] = <<handled.token, handled.trace>>
    /\ handled.trace # Zero
    /\ nAppends >= 2

\* a score request has been answered and no trace was ingested since it came
Answered == query.pc = "answered" /\ query.n = nAppends

\* the ring contents of a token: its last min(N, L) ingested traces
RingOf(token) == LastN(done[token], length)

AllRules(p) == \A k \in 1..Len(p) : p[k].type = "rules"

\* the score of a pipeline of rules scorers over the traces ts: the fold of
\* section 4.6 over the scorers' scores
RECURSIVE RefPipeline(_, _, _)
RefPipeline(p, ts, k) ==
    IF k = 0 THEN EmptyScore
    ELSE FoldStep(RefPipeline(p, ts, k - 1), RulesScore(p[k].rs, ts))

MlFailed ==
    /\ mlCall.pc = "done"
    /\ mlCall.resp \in {"network", "timeout", "non200", "unreadable", "malformed",
                        "wrongtype"}

C23_SinkFailureKeepsIngest ==
    LET valid == handled.body \in {"object", "null"} /\ CarriesToken(handled.cookies)
    IN  (handled.called /\ valid /\ datasetRepo # "nil" /\ ~handled.sinkOk) =>
            /\ handled.status = 200
            /\ handled.sinkAppends = <<<<handled.token, handled.trace>>>>
            /\ handled.repoAppends = <<<<handled.token, handled.trace>>>>
            /\ GetResult(handled.token)[3]
            /\ LET got1 == GetResult(handled.token)[2]
               IN  got1 # <<>> /\ got1[Len(got1)] = handled.trace
            /\ Len(dataset) < nAppends

\* two requests were accepted by a router whose sink failed both times: both
\* traces are in the repository, the dataset is empty
C23_Witness ==
    /\ handled.called
    /\ handled.status = 200
    /\ datasetRepo = "json"
    /\ ~handled.sinkOk
    /\ handled.sinkAppends # <<>>
    /\ nAppends = 2
    /\ dataset = <<>>
    /\ Len(GetResult(handled.token)[2]) = 2

\* the Append calls whose line reached the file, in call order
SinkDone == SelectSeq(sinkLog, LAMBDA c : c.ok)

\* the trace a JSON value decodes to (json.Unmarshal into trace.Trace)
TraceOfJson(j) ==
    IF j.json = "null" THEN NilTrace ELSE [nil |-> FALSE, m |-> j.v]

\* C24: every successful DatasetSink.Append writes exactly one line, a JSON
\* object whose keys are exactly time, token and trace, with token and trace
\* those of the call; after k successful Appends the file holds k such
\* lines in call order.
C24_OneLinePerAppend ==
    /\ Len(sinkFile) = Len(SinkDone)
    /\ \A i \in 1..Len(sinkFile) :
          /\ DOMAIN sinkFile[i] = {"time", "token", "trace"}
          /\ sinkFile[i]["token"] = [json |-> "string", v |-> SinkDone[i].token]
          /\ sinkFile[i]["trace"].json \in {"null", "object"}
          /\ TraceOfJson(sinkFile[i]["trace"]) = SinkDone[i].trace
          /\ sinkFile[i]["time"].json = "string"

\* two Appends succeeded, the first with the nil trace, for different
\* tokens: the file holds their two lines in call order
C24_Witness ==
    /\ Len(sinkLog) = 2
    /\ Len(sinkFile) = 2
    /\ sinkLog[1].trace = NilTrace
    /\ sinkLog[2].trace # NilTrace
    /\ sinkLog[1].token # sinkLog[2].token
    /\ sinkFile[1]["trace"].json = "null"
    /\ sinkFile[2]["trace"].json = "object"

\* C25: the time of each line is the record time as year, month, day of
\* month, hour, minute, second: the third date field is the day of the
\* month of the record time.
C25_TimeIsYearMonthDay ==
    \A i \in 1..Len(sinkFile) :
        LET txt == sinkFile[i]["time"].v
            at == SinkDone[i].time
        IN  /\ txt[1] = at.year
            /\ txt[3] = at.month
            /\ txt[5] = at.day
            /\ txt[7] = at.hour /\ txt[9] = at.minute /\ txt[11] = at.second

\* every rule of rsv once on the trace t, in declaration order, starting from
\* acc; then trace after trace, oldest first
RECURSIVE OverRules(_, _, _, _)
OverRules(acc, rsv, t, j) ==
    IF j = 0 THEN acc
    ELSE RefAdd(OverRules(acc, rsv, t, j - 1), Eval(rsv.rules[j], t).score,
                rsv.min, rsv.max)
RECURSIVE OverTraces(_, _, _)
OverTraces(rsv, ts, i) ==
    IF i = 0 THEN EmptyScore
    ELSE OverRules(OverTraces(rsv, ts, i - 1), rsv, ts[i], Len(rsv.rules))
RECURSIVE OverScorers(_, _, _)
OverScorers(p, ts, k) ==
    IF k = 0 THEN EmptyScore
    ELSE FoldStep(OverScorers(p, ts, k - 1), OverTraces(p[k].rs, ts, Len(ts)))

\* C26: a score query hands the scorers the full current ring contents of the
\* queried token and nothing else: the slice is the last min(N, L) traces
\* ingested for that token, and the score of a pipeline of rules scorers is
\* what evaluating each rule once on each of those traces gives; displaced
\* traces and traces of other tokens contribute nothing.
C26_ScoreOverRingOfToken ==
    /\ scoreRun.pc = "loop" =>
          /\ scoreRun.traces = RingOf(scoreRun.id)
          /\ Len(scoreRun.traces) = Min(Len(done[scoreRun.id]), length)
          /\ mlCall.pc # "idle" => mlCall.batch = RingOf(scoreRun.id)
    /\ (Answered /\ query.status \in {200, 400} /\ AllRules(scorers)) =>
          SameWhereDefined(scoreRet.result,
              OverScorers(scorers, RingOf(query.token), Len(scorers)))

\* the oldest trace of the token, one with a click, has been displaced, and of
\* the retained ones one has a click and one has none: with +0.5 per click
\* the score of a is 0.5
C26_Witness ==
    /\ Answered
    /\ query.status = 200
    /\ scorers = <<RulesScorerOf(<<RuleAB>>)>>
    /\ query.token # ""
    /\ Len(done[query.token]) > length
    /\ done[query.token][1].m["clicks"] = 1
    /\ \E i \in 1..Len(RingOf(query.token)) : RingOf(query.token)[i].m["clicks"] = 0
    /\ scoreRet.result["a"] = 1

\* the predicate of rule r holds on trace t
Matches(r, t) ==
    /\ r.when = "clicks > 0"
    /\ ~t.nil
    /\ "clicks" \in DOMAIN t.m
    /\ t.m["clicks"] > 0

\* the dimensions named by the then of a rule of pipeline p that matches one
\* of the traces ts
MatchedDims(p, ts) ==
    UNION {DOMAIN p[k].rs.rules[j].then :
              <<k, j>> \in {x \in (1..Len(p)) \X (1..MaxRules) :
                               /\ x[2] <= Len(p[x[1]].rs.rules)
                               /\ \E i \in 1..Len(ts) :
                                     Matches(p[x[1]].rs.rules[x[2]], ts[i])}}

\* C27: with rules scorers only, a dimension is in the returned score only if
\* a rule that matched a retained trace names it in its then; with an empty
\* rule list, or when no rule matches any retained trace, the score of an
\* existing token is empty and the query is answered 200 with body {}.
C27_OnlyMatchedDimensions ==
    (Answered /\ query.token # "" /\ done[query.token] # <<>> /\ AllRules(scorers)) =>
        LET dims == MatchedDims(scorers, RingOf(query.token))
        IN  /\ DOMAIN scoreRet.result \subseteq dims
            /\ dims = {} =>
                  /\ scoreRet.result = EmptyScore
                  /\ query.status = 200
                  /\ query.body = [written |-> TRUE, text |-> <<>>]

\* a token whose retained traces have no click is queried through a pipeline
\* whose rule asks for one: 200 with body {}
C27_Witness ==
    /\ Answered
    /\ scorers = <<RulesScorerOf(<<RuleAB>>)>>
    /\ query.token # ""
    /\ Len(done[query.token]) = 2
    /\ \A i \in 1..2 : done[query.token][i].m["clicks"] = 0
    /\ query.status = 200
    /\ query.body = [written |-> TRUE, text |-> <<>>]

\* C30: each scorer receives the context of the inbound request: a scorer
\* call that was in flight when the request was cancelled ends as cancelled,
\* not with a response or the scorer's own timeout.
C30_RequestCancelReachesScorer ==
    (mlCall.pc = "done" /\ mlCall.cancelled = "inflight") =>
        /\ mlCall.out.err # NoErr
        /\ mlCall.out.err.msg = <<"context canceled">>

\* a rules file that LoadFromFile cannot turn into a rule list: unreadable,
\* not YAML, or holding a rule that does not parse, check or build
FileFails(file) ==
    LET f == ReadFile(file)
    IN  \/ ~f.readable
        \/ ~f.yaml
        \/ \E i \in 1..Len(f.rules) : RuleInit(f.rules[i]) # NoErr

\* the configuration names a rules file that fails or a scorer of unknown type
StartupFails(c) ==
    \E i \in 1..Len(c.scorers) :
        \/ c.scorers[i].type = ScorerTypeRules /\ FileFails(c.scorers[i].rules)
        \/ c.scorers[i].type \notin {ScorerTypeML, ScorerTypeRules}

\* C28: for every valid configuration, with or without a dataset sink, a
\* SIGINT or SIGTERM leads to shutdown in the order server, reaper, sink:
\* the reaper is stopped only after the server has shut down, the sink is
\* closed only after the reaper is stopped, and the process that has
\* shut down exits with code 0, the sink (when one exists) closed.
C28_ShutdownOrderExitZero ==
    /\ stopRet => proc.srv = "closed"
    /\ proc.sinkClosed => stopRet
    /\ (proc.pc = "exited" /\ proc.ctxDone /\ LoadConfig(proc.config) = NoErr
            /\ ~StartupFails(proc.config)) =>
          /\ stopRet
          /\ proc.datasetRepo = "json" => proc.sinkClosed
          /\ proc.exit = 0

\* C29: when a rule of a configured rules scorer fails to load or compile, or
\* a scorer has an unknown type, the server is never created, never listens
\* and answers no score request, the process that has exited has exit code 1
\* (or was killed by a signal before it installed its handler), and every
\* rules scorer ever built holds the complete rule list of a file that loads.
C29_StartupFailureIsFatal ==
    /\ StartupFails(proc.config) =>
          /\ proc.srv = "none"
          /\ ~proc.listened
          /\ proc.used = None
          /\ proc.pc \notin {"listen", "wait", "stop"}
          /\ proc.pc = "exited" =>
                \/ proc.exit = 1
                \/ proc.exit = BySignal /\ ~proc.registered
    /\ \A i \in 1..Len(proc.scorers) :
          proc.scorers[i].type = "rules" =>
              /\ ~FileFails(proc.config.scorers[i].rules)
              /\ proc.scorers[i].rs.rules = ReadFile(proc.config.scorers[i].rules).rules

\* a valid configuration whose second scorer names a rules file with a rule
\* that does not parse: the first scorer was built, then the process exited
\* with code 1 without a server
C29_Witness ==
    /\ proc.pc = "exited"
    /\ proc.exit = 1
    /\ LoadConfig(proc.config) = NoErr
    /\ Len(proc.config.scorers) = 2
    /\ proc.config.scorers[2].rules = "parse.yaml"
    /\ proc.scorers = <<MlScorer>>
    /\ proc.reaper
    /\ proc.srv = "none"

\* tokens that have an entry in tr.traces
Live == {id \in Tokens : traces[id] # NoBuf}

\* C33: double-checked insertion loses nothing.  With no reaper, whatever the
\* interleaving of Append calls: one ring exists per token that has an entry
\* and none besides, every caller about to push holds the ring of its token,
\* and once no Append to a token is in progress Get returns the traces of all
\* its calls, in push order (the last length of them when there are more).
C33_DoubleCheckedInsertion ==
    length > 0 =>
        /\ Len(bufs) = Cardinality(Live)
        /\ \A w \in Workers : pc[w] = "push" => buffer[w] = traces[arg[w].id]
        /\ \A id \in Tokens :
              (id \notin InAppend /\ done[id] # <<>>) =>
                  GetResult(id) = <<id, LastN(done[id], length), TRUE>>

\* two Append calls for the same absent token both missed the entry in the
\* first lookup, went through the creation section and returned: one ring,
\* holding both traces
C33_Witness ==
    /\ \E id \in overlapped :
          /\ id \notin InAppend
          /\ Len(done[id]) = 2
          /\ Len(GetResult(id)[2]) = 2
          /\ Len(bufs) = 1
    /\ nAppends = 2
    /\ length >= 2

\* C34: Append is atomic with respect to Get: whenever Get returns
\* found = true the returned sequence is non-empty.
C34_FoundIsNonEmpty ==
    \A w \in Workers : got[w][3] => got[w][2] # <<>>

\* C35: the ring of a token holds the traces in the order in which their
\* Append calls arrived (the k-th call carries the trace k), overlapping
\* calls included.
C35_RingInArrivalOrder ==
    \A b \in 1..Len(bufs) :
        LET s == ToSlice(bufs[b])
        IN  \A i, j \in 1..Len(s) : i < j => s[i] < s[j]

\* C36: a reaper pass deletes exactly the tokens whose age at its scan was
\* strictly greater than ttl: the delete section removes every token that
\* was expired at the scan and no other, whatever Appends ran in between.
C36_ReaperDeletesExpiredOnly ==
    [][(rpc = "delete" /\ rpc' = "wait") =>
          \A id \in Tokens :
              /\ id \in expired => traces[id] # NoBuf /\ traces'[id] = NoBuf
              /\ id \notin expired =>
                    traces'[id] = traces[id] /\ tracesUpdates'[id] = tracesUpdates[id]]_vars

\* a pass has removed a token that had traces, and a token whose age is
\* within ttl is in the repository
C36_Witness ==
    /\ deleted
    /\ rpc = "wait"
    /\ \E id \in Tokens : traces[id] = NoBuf /\ done[id] # <<>>
    /\ \E u \in Tokens : traces[u] # NoBuf /\ now - tracesUpdates[u] <= TTL

\* C37: while the repository lock is free, a token has a ring buffer exactly
\* when it has a lastTouch value.
C37_MapsHaveSameKeys ==
    tracesMu = NoLock =>
        \A id \in Tokens : (traces[id] # NoBuf) <=> (tracesUpdates[id] # NoTime)

\* after a reaper delete one token is in both maps and the other in neither
C37_Witness ==
    /\ deleted
    /\ tracesMu = NoLock
    /\ \E id \in Tokens : traces[id] = NoBuf /\ tracesUpdates[id] = NoTime /\ done[id] # <<>>
    /\ \E u \in Tokens : traces[u] # NoBuf /\ tracesUpdates[u] # NoTime

\* C39: a failing Append does not wedge the repository: once ring
\* construction has failed inside Append (non-positive length), the
\* repository lock is free again and the maps are as they were.
C39_FailedAppendReleasesLock ==
    (\E w \in Workers : pc[w] = "panicked") =>
        /\ tracesMu = NoLock
        /\ Live = {}
        /\ \A id \in Tokens : tracesUpdates[id] = NoTime

\* C31: a score query never mutates repository state.  Every step of a
\* CompositeScorer.Score call, up to its success or failure, leaves the set
\* of entries, every ring and every lastTouch value unchanged; and the trace
\* sequence the call got from Get stays as it was through every later step,
\* Appends included.
C31_ScoreLeavesRepository ==
    [][/\ (scoreRun' # scoreRun \/ scoreRet' # scoreRet) =>
             /\ traces' = traces
             /\ tracesUpdates' = tracesUpdates
             /\ bufs' = bufs
       /\ (scoreRun.pc = "loop" /\ scoreRun'.pc = "loop") =>
             scoreRun'.traces = scoreRun.traces]_vars

\* a Score call is between scorers, and an Append made after its Get
\* returned has changed the ring of the token
C31_Witness ==
    /\ scoreRun.pc = "loop"
    /\ scoreRun.k = 2
    /\ scoreRun.traces # GetResult(scoreRun.id)[2]
    /\ \A w \in Workers : pc[w] = "idle"

\* the ring's contents after the first k pushes
Snapshot(k) == LastN(SubSeq(rbPushed, 1, k), rb.size)

\* C32: readers never see a torn view.  What a ToSlice call returns is the
\* ring's contents after k pushes, for some k between the pushes that had
\* returned when it was called and the pushes that had begun when it
\* returns: the last min(k, size) items pushed, in push order.  At(i)
\* returns element i of such contents, and panics only when they have no
\* element i.
C32_NoTornView ==
    \A g \in Workers :
        LET c == rbCall[g] IN
        /\ (c.op = "ToSlice" /\ c.pc = "runlock") =>
              /\ ~c.panic
              /\ \E k \in c.lo..Len(rbPushed) : c.result = Snapshot(k)
        /\ (c.op = "At" /\ c.pc = "runlock") =>
              \E k \in c.lo..Len(rbPushed) :
                  LET snap == Snapshot(k)
                  IN  IF c.i < Len(snap) THEN ~c.panic /\ c.result = snap[c.i + 1]
                      ELSE c.panic

\* a ToSlice call that was made while a Push held the lock is returning
\* the full ring, the item of that Push included, after older items were
\* displaced, while the other goroutine waits to push again
C32_Witness ==
    \E g \in Workers :
        LET c == rbCall[g] IN
        /\ c.op = "ToSlice" /\ c.pc = "runlock"
        /\ ~c.panic
        /\ Len(rbPushed) > c.lo
        /\ rb.size >= 2
        /\ Len(rbPushed) > rb.size
        /\ c.result = Snapshot(Len(rbPushed))

Threads == Workers \cup {"reaper"}

\* the goroutines x is blocked by: x is inside Lock or RLock of a mutex and
\* they own it, or x is inside RLock and they are inside Lock before it
Blockers(x) ==
    LET at == IF x = "reaper" THEN rpc ELSE pc[x]
        onTraces == at \in {"a_rlock", "a_acq", "g_acq", "r_rlock", "r_acq"}
        onRing == at \in {"p_acq", "g_rlock"}
        mu == IF onTraces THEN tracesMu
              ELSE IF onRing THEN bufs[buffer[x]].mu ELSE NoLock
        owner == {mu.w} \ {None}
    IN  IF at \in {"a_rlock", "r_rlock", "g_rlock"} THEN owner \cup mu.p
        ELSE (owner \cup mu.r) \ {x}

\* no set of goroutines each blocked by another of the set
NoWaitCycle ==
    \A S \in (SUBSET Threads) \ {{}} : \E x \in S : Blockers(x) \cap S = {}

\* C38: with L > 0 the repository is deadlock-free.  Under fair scheduling
\* every Append call and every Get call in progress returns, every reaper
\* pass that received its tick completes, and in no reachable state do
\* goroutines wait for one another in a cycle on tracesMu and a ring's mu.
C38_DeadlockFree ==
    /\ \A w \in Workers : (pc[w] # "idle") ~> (pc[w] = "idle")
    /\ (rpc \notin {"init", "wait"}) ~> (rpc = "wait")
    /\ []NoWaitCycle

\* a Get owns tracesMu and waits for the read lock of a ring in which a
\* Push of the other worker is under way, while the reaper waits for tracesMu
C38_Witness ==
    /\ pc["w1"] = "g_rlock"
    /\ tracesMu.w = "w1"
    /\ pc["w2"] = "p_body"
    /\ buffer["w1"] = buffer["w2"]
    /\ rpc \in {"r_rlock", "r_acq"}
    /\ Blockers("w1") = {"w2"}
    /\ "w1" \in Blockers("reaper")

\* C40 (as claimed): once Stop has stopped the ticker of a running Serve
\* loop, the Serve call returns.
C40_ReaperCancellable ==
    (cleanTicker = "stopped") ~> (rpc = "returned")

====
